---- MODULE Spec2Model ----
(***************************************************************************)
(* Model of the repository scanners (discovery_agent/tools) and of the     *)
(* Gherkin story generator (user_histories/tools.py).                      *)
(*                                                                         *)
(* Text is modelled as sequences of atoms.  A relative path is a sequence  *)
(* such as <<"src", "/", "main", ".", "py">>; a glob is a sequence such as  *)
(* <<"*", "*", "/", "*", ".", "py">>.  An atom stands for a run of          *)
(* characters that no glob of the model splits, so matching atom by atom   *)
(* is matching character by character.  File content is a sequence over    *)
(* {"a", "b", "\n"}: "a" and "b" stand for stretches of text matched by the *)
(* first and the second modelled regular expression of the running         *)
(* scanner, each one atom long.                                            *)
(***************************************************************************)
EXTENDS Integers, Sequences, FiniteSets, TLC

\* ------------------------------------------------------------------ bounds
\* longest file content of the single-file repositories, in atoms
MaxLen == 3
\* largest value tried for max_files, max_matches_per_file and context_lines
MaxCap == 2
\* the number of times the generator is run on the same input
MaxRuns == 2

\* ----------------------------------------------------------------- helpers
Min(a, b) == IF a < b THEN a ELSE b
Max(a, b) == IF a > b THEN a ELSE b

NL == "\n"

RECURSIVE SeqsUpTo(_, _)
\* all sequences over S of length at most n
SeqsUpTo(S, n) ==
    IF n = 0 THEN {<<>>}
    ELSE LET shorter == SeqsUpTo(S, n - 1)
         IN shorter \cup {Append(s, x) : s \in shorter, x \in S}

\* a slice bound of Python: negative counts from the end, then clipped
PyBound(i, n) == IF i < 0 THEN Max(n + i, 0) ELSE Min(i, n)

\* s[lo:hi] of Python
PySlice(s, lo, hi) ==
    IF PyBound(lo, Len(s)) >= PyBound(hi, Len(s)) THEN <<>>
    ELSE SubSeq(s, PyBound(lo, Len(s)) + 1, PyBound(hi, Len(s)))

\* s.count("\n")
CountNL(s) == Cardinality({i \in 1..Len(s) : s[i] = NL})

\* fh.readlines(): the lines of the content, each keeping its "\n"; a last
\* line without "\n" is a line too; the empty content has no line
RECURSIVE ReadLines(_, _)
ReadLines(content, acc) ==
    IF content = <<>> THEN (IF acc = <<>> THEN <<>> ELSE <<acc>>)
    ELSE IF Head(content) = NL
         THEN <<Append(acc, NL)>> \o ReadLines(Tail(content), <<>>)
         ELSE ReadLines(Tail(content), Append(acc, Head(content)))

\* str.strip() where the only whitespace atom is "\n"
Strip(s) ==
    LET black == {i \in 1..Len(s) : s[i] # NL}
    IN IF black = {} THEN <<>>
       ELSE SubSeq(s, CHOOSE i \in black : \A j \in black : i <= j,
                      CHOOSE i \in black : \A j \in black : j <= i)

\* "".join(lines)
RECURSIVE Concat(_)
Concat(ss) == IF ss = <<>> THEN <<>> ELSE Head(ss) \o Concat(Tail(ss))

\* the elements of a sequence
Range(s) == {s[i] : i \in 1..Len(s)}

\* ------------------------------------------------------------ the matcher
\* fnmatch.fnmatch(name, pat) on POSIX: the glob is translated to a regular
\* expression in which "*" is ".*" and "?" is "." whatever the character,
\* "/" included, and the whole name must match
RECURSIVE fnmatch(_, _)
fnmatch(name, pat) ==
    IF pat = <<>> THEN name = <<>>
    ELSE IF Head(pat) = "*"
         THEN fnmatch(name, Tail(pat))
              \/ (name # <<>> /\ fnmatch(Tail(name), pat))
    ELSE IF Head(pat) = "?"
         THEN name # <<>> /\ fnmatch(Tail(name), Tail(pat))
    ELSE name # <<>> /\ Head(name) = Head(pat) /\ fnmatch(Tail(name), Tail(pat))

\* any(fnmatch.fnmatch(rel, pattern) for pattern in globs)
MatchesAny(rel, globs) == \E i \in 1..Len(globs) : fnmatch(rel, globs[i])

\* str(rel_dir / name).replace("\\", "/"); Path(".") / name is name
JoinRel(rel_dir, name) ==
    IF rel_dir = <<>> THEN name ELSE rel_dir \o <<"/">> \o name

\* "**/*.<ext>" and "**/<dir>/**"
ExtGlob(ext) == <<"*", "*", "/", "*", ".", ext>>
DirGlob(dir) == <<"*", "*", "/", dir, "/", "*", "*">>

\* ---------------------------------------------------------- the scanners
\* the tools, by their `name` attribute
GENERIC == "search_repo_patterns"
ROBUST == "robust_search_repo_patterns"
LISTER == "list_repository_files"
DB == "scan_db_schema"
ENDPOINT == "scan_endpoints"
VALIDATOR == "scan_validators"
UI == "scan_ui_routes"
VISUAL == "scan_visual_identity"
API == "scan_api_contracts"

Specialized == {DB, ENDPOINT, VALIDATOR, UI, VISUAL, API}
Scanners == {GENERIC, LISTER} \cup Specialized

\* the include globs SearchRepoPatternsTool._run uses when it is given none
GenericDefaultInclude ==
    << ExtGlob("py"), ExtGlob("ts"), ExtGlob("tsx"), ExtGlob("js"),
       ExtGlob("jsx"), ExtGlob("go"), ExtGlob("java"), ExtGlob("cs"),
       ExtGlob("rb"), ExtGlob("php"), ExtGlob("kt"), ExtGlob("scala") >>

\* the exclude globs SearchRepoPatternsTool._run uses when it is given none
GenericDefaultExclude ==
    << DirGlob(".git"), DirGlob("node_modules"), DirGlob(".venv"),
       DirGlob("dist"), DirGlob("build"), DirGlob(".next"),
       DirGlob("coverage") >>

\* ListRepositoryFilesTool._run: include_globs or ["**/*"]
ListerDefaultInclude == << <<"*", "*", "/", "*">> >>

\* ListRepositoryFilesTool._run: exclude_globs or [three directories]
ListerDefaultExclude ==
    << DirGlob(".git"), DirGlob("node_modules"), DirGlob(".venv") >>

\* `globs or default`: None and the empty list are both falsy
OrDefault(globs, default) ==
    IF globs.t = "none" \/ globs.v = <<>> THEN default ELSE globs.v

\* the include list a scanner works with (the specialized ones: `or []`)
EffectiveInclude(sc, globs) ==
    IF sc = GENERIC THEN OrDefault(globs, GenericDefaultInclude)
    ELSE IF sc = LISTER THEN OrDefault(globs, ListerDefaultInclude)
    ELSE OrDefault(globs, <<>>)

\* the exclude list a scanner works with
EffectiveExclude(sc, globs) ==
    IF sc = GENERIC THEN OrDefault(globs, GenericDefaultExclude)
    ELSE IF sc = LISTER THEN OrDefault(globs, ListerDefaultExclude)
    ELSE OrDefault(globs, <<>>)

\* mutant: the directory path is tested without the trailing "/"
ShouldPruneNoSlash(full, excl) == MatchesAny(full, excl)

\* the test on a directory of the walk: fnmatch(full + "/", pattern) for
\* some exclude glob
ShouldPrune(full, excl) == MatchesAny(full \o <<"/">>, excl)

\* the dirnames a scanner leaves in place: dirnames[:] = pruned_dirnames
RECURSIVE PrunedDirnames(_, _, _)
PrunedDirnames(dir, dirnames, excl) ==
    IF dirnames = <<>> THEN <<>>
    ELSE LET d == Head(dirnames)
             rest == PrunedDirnames(dir, Tail(dirnames), excl)
         IN IF ShouldPrune(JoinRel(dir, d), excl) THEN rest ELSE <<d>> \o rest

\* the two tests on a file of the walk; every scanner skips the file when
\* an exclude glob matches, or when the include list is not empty and no
\* include glob matches (the order of the two tests differs, the result
\* does not)
IsCandidate(r, incl, excl) ==
    /\ ~MatchesAny(r, excl)
    /\ (incl = <<>> \/ MatchesAny(r, incl))

\* ------------------------------------------------------- the file systems
\* a file system: the listing of every directory (in scandir order), the
\* content of every file (ok = FALSE: open() or read() raises) and the
\* directories that are symbolic links (listed among the dirnames of their
\* parent like any directory), each with the directory it points to
File(text) == [ok |-> TRUE, text |-> text]
Unreadable == [ok |-> FALSE, text |-> <<>>]
Dir(dirnames, filenames) == [dirnames |-> dirnames, filenames |-> filenames]

NM == <<"node_modules">>
SRC == <<"src">>
APP == <<"app">>

\* a small web repository
RepoA ==
    [ dirs |->
        ( <<>> :> Dir(<<NM, SRC>>, << <<"setup", ".", "py">> >>)
          @@ NM :> Dir(<<>>, << <<"lib", ".", "py">> >>)
          @@ SRC :> Dir(<<NM, APP>>,
                        << <<"main", ".", "py">>, <<"util", ".", "ts">> >>)
          @@ JoinRel(SRC, NM) :> Dir(<<>>, << <<"dep", ".", "py">> >>)
          @@ JoinRel(SRC, APP) :> Dir(<<>>, << <<"page", ".", "tsx">>,
                                              <<"api", ".", "yaml">>,
                                              <<"logo", ".", "svg">> >>) ),
      data |->
        ( <<"setup", ".", "py">> :> File(<<"a", NL, "b">>)
          @@ JoinRel(NM, <<"lib", ".", "py">>) :> File(<<"a", NL>>)
          @@ JoinRel(SRC, <<"main", ".", "py">>) :> File(<<"b", NL, "a", "b", NL>>)
          @@ JoinRel(SRC, <<"util", ".", "ts">>) :> Unreadable
          @@ JoinRel(JoinRel(SRC, NM), <<"dep", ".", "py">>) :> File(<<"a">>)
          @@ JoinRel(JoinRel(SRC, APP), <<"page", ".", "tsx">>)
               :> File(<<NL, NL, "a">>)
          @@ JoinRel(JoinRel(SRC, APP), <<"api", ".", "yaml">>) :> File(<<"a">>)
          @@ JoinRel(JoinRel(SRC, APP), <<"logo", ".", "svg">>) :> File(<<"b">>) ),
      links |-> <<>> ]

LOOP == <<"loop">>

\* a repository with files that cannot be read and with src/loop, a
\* symbolic link to the root of the repository
RepoB ==
    [ dirs |->
        ( <<>> :> Dir(<<SRC>>, <<>>)
          @@ SRC :> Dir(<<LOOP, APP>>, << <<"ok", ".", "ts">> >>)
          @@ JoinRel(SRC, APP) :> Dir(<<>>, << <<"page", ".", "tsx">>,
                                              <<"logo", ".", "svg">>,
                                              <<"view", ".", "ts">> >>) ),
      data |->
        ( JoinRel(SRC, <<"ok", ".", "ts">>) :> File(<<"a", NL, "b">>)
          @@ JoinRel(JoinRel(SRC, APP), <<"page", ".", "tsx">>) :> Unreadable
          @@ JoinRel(JoinRel(SRC, APP), <<"logo", ".", "svg">>) :> Unreadable
          @@ JoinRel(JoinRel(SRC, APP), <<"view", ".", "ts">>) :> File(<<"b", "a">>) ),
      links |-> ( JoinRel(SRC, LOOP) :> <<>> ) ]

\* a repository of one file, src/<name>, with the given content
SingleFile(name, text) ==
    [ dirs |-> ( <<>> :> Dir(<<SRC>>, <<>>) @@ SRC :> Dir(<<>>, <<name>>) ),
      data |-> ( JoinRel(SRC, name) :> File(text) ),
      links |-> <<>> ]

ContentAtoms == {"a", "b", NL}
Contents == SeqsUpTo(ContentAtoms, MaxLen)

\* a file longer than every window of the per-content scanners: a match of
\* the second pattern on line 101, one of the first pattern on line 251,
\* and 250 empty lines after it
LongText ==
    [i \in 1..100 |-> NL] \o <<"b">> \o [i \in 1..150 |-> NL] \o <<"a">>
    \o [i \in 1..250 |-> NL]

\* ------------------------------------------------- the pattern libraries
\* A regular expression of the model is the atom it matches: re.search
\* finds it in a text iff the atom occurs, and a match is one atom long.
\* "(" stands for a string that is no regular expression.  The last default
\* pattern of the lenient tool, r"def\\s+\\w+\\(", is none either: the
\* doubled backslash is a literal backslash, which leaves "(" unescaped
\* and open ("missing ), unterminated subpattern").
HeuristicDefPattern == "def\\\\s+\\\\w+\\\\("
IsValidRegex(p) == p \notin {"(", HeuristicDefPattern}

\* creg.search(line)
Search(regex, line) == regex \in Range(line)

\* [m.start() for m in rx.finditer(text)], 0-based, ascending
Finditer(regex, text) ==
    LET starts == {i - 1 : i \in {j \in 1..Len(text) : text[j] = regex}}
    IN [k \in 1..Cardinality(starts) |->
           CHOOSE p \in starts : Cardinality({q \in starts : q < p}) = k - 1]

Pat(category, regex) == [category |-> category, regex |-> regex]

\* The pattern table of each specialized scanner, in the order of the
\* source, restricted to the two entries whose matches the content atoms
\* "a" and "b" stand for.
DbPatterns == << Pat("prisma_model", "a"), Pat("sql_create_table", "b") >>
EndpointPatterns == << Pat("http_url", "a"), Pat("env_url", "b") >>
ValidatorPatterns == << Pat("zod_schema", "a"), Pat("pydantic_model", "b") >>
UiKeys == << Pat("vue_router_create", "a"), Pat("angular_routes", "b") >>
TokenPatterns == << Pat("css_var", "a"), Pat("color_hex", "b") >>
\* api contract scanner: "a" is a text openapi_key finds, "b" one that
\* graphql_type finds
OpenapiKey == "a"
GraphqlType == "b"

\* the characters kept on each side of a match by the per-content scanners
DbWindow == 160
ValidatorWindow == 160
UiWindow == 200
VisualWindow == 120
ApiWindow == 200
\* line_end = min(content.count("\n"), 200) of the openapi_paths record
OpenapiLineCap == 200
\* content[:400], the fallback snippet of the openapi_paths record
OpenapiSnippetLen == 400

PerContentTable(sc) ==
    IF sc = DB THEN DbPatterns
    ELSE IF sc = VALIDATOR THEN ValidatorPatterns
    ELSE IF sc = UI THEN UiKeys
    ELSE TokenPatterns

Window(sc) ==
    IF sc = DB THEN DbWindow
    ELSE IF sc = VALIDATOR THEN ValidatorWindow
    ELSE IF sc = UI THEN UiWindow
    ELSE IF sc = VISUAL THEN VisualWindow
    ELSE ApiWindow

\* ------------------------------------------------ the evidence extractor
\* a hit: the pattern (its index in the table) and the place (the 1-based
\* line for the per-line scanners, the 0-based offset for the others)
Hit(pat, pos) == [pat |-> pat, pos |-> pos]

\* line_start of a per-line match
LineStartOf(idx, context_lines) == Max(1, idx - context_lines)

\* line_end of a per-line match
LineEndOf(idx, context_lines, nlines) == Min(nlines, idx + context_lines)

\* The match loop of SearchRepoPatternsTool._run: lines in order, for each
\* line the compiled patterns in order; a match appends a record and then
\* counts it, and the count is compared with max_matches_per_file after
\* the append (inner break) and again after every line (outer break).
RECURSIVE GenericLoop(_, _, _, _, _, _)
GenericLoop(lines, compiled, m, idx, k, cnt) ==
    IF idx > Len(lines) THEN <<>>
    ELSE IF k > Len(compiled)
         THEN IF cnt >= m THEN <<>>
              ELSE GenericLoop(lines, compiled, m, idx + 1, 1, cnt)
    ELSE IF Search(compiled[k], lines[idx])
         THEN <<Hit(k, idx)>>
              \o (IF cnt + 1 >= m THEN <<>>
                  ELSE GenericLoop(lines, compiled, m, idx, k + 1, cnt + 1))
    ELSE GenericLoop(lines, compiled, m, idx, k + 1, cnt)

GenericHits(lines, compiled, m) == GenericLoop(lines, compiled, m, 1, 1, 0)

\* the record SearchRepoPatternsTool._run appends for a match on line idx
GenericRecord(path, lines, idx, context_lines) ==
    LET start == LineStartOf(idx, context_lines)
        end == LineEndOf(idx, context_lines, Len(lines))
    IN [ path |-> path,
         line_start |-> start,
         line_end |-> end,
         code_snippet |-> Strip(Concat(PySlice(lines, start - 1, end))) ]

\* mutant: patterns first, then lines
RECURSIVE EndpointLoopByPattern(_, _, _, _)
EndpointLoopByPattern(lines, table, idx, k) ==
    IF k > Len(table) THEN <<>>
    ELSE IF idx > Len(lines) THEN EndpointLoopByPattern(lines, table, 1, k + 1)
    ELSE [j \in 1..Len(Finditer(table[k].regex, lines[idx])) |-> Hit(k, idx)]
         \o EndpointLoopByPattern(lines, table, idx + 1, k)

\* the loop of EndpointScannerTool._run: lines, then patterns, then the
\* matches of the pattern in the line
RECURSIVE EndpointLoop(_, _, _, _)
EndpointLoop(lines, table, idx, k) ==
    IF idx > Len(lines) THEN <<>>
    ELSE IF k > Len(table) THEN EndpointLoop(lines, table, idx + 1, 1)
    ELSE [j \in 1..Len(Finditer(table[k].regex, lines[idx])) |-> Hit(k, idx)]
         \o EndpointLoop(lines, table, idx, k + 1)

EndpointHits(lines) == EndpointLoop(lines, EndpointPatterns, 1, 1)

\* the record EndpointScannerTool._run appends: "L{idx}-{idx}"
EndpointRecord(path, lines, h) ==
    [ path |-> path,
      line_numbers |-> <<h.pos, h.pos>>,
      category |-> EndpointPatterns[h.pat].category,
      value |-> EndpointPatterns[h.pat].regex,
      code_snippet |-> Strip(lines[h.pos]) ]

\* the loop of the DB schema, validator and visual token scanners:
\* patterns in table order, then the matches of the pattern in the content
RECURSIVE FinditerLoop(_, _, _)
FinditerLoop(content, table, k) ==
    IF k > Len(table) THEN <<>>
    ELSE LET starts == Finditer(table[k].regex, content)
         IN [j \in 1..Len(starts) |-> Hit(k, starts[j])]
            \o FinditerLoop(content, table, k + 1)

\* the loop of UIRouterScannerTool._run: keys in order, the first match of
\* each key only
RECURSIVE FirstMatchLoop(_, _, _)
FirstMatchLoop(content, table, k) ==
    IF k > Len(table) THEN <<>>
    ELSE LET starts == Finditer(table[k].regex, content)
         IN (IF starts = <<>> THEN <<>> ELSE <<Hit(k, starts[1])>>)
            \o FirstMatchLoop(content, table, k + 1)

\* line_start of a per-content match: content[:start].count("\n") + 1
ContentLineStart(content, start) == CountNL(PySlice(content, 0, start)) + 1

\* the window content[max(0, start - W) : end + W] around a match
ContentWindow(content, start, end, W) ==
    PySlice(content, Max(0, start - W), end + W)

\* mutant: the last line is the line the match ends on
ContentLineEndOfMatch(content, start, end, W) ==
    ContentLineStart(content, start) + CountNL(PySlice(content, start, end))

\* line_end of a per-content match: line_start + snippet.count("\n")
ContentLineEnd(content, start, end, W) ==
    ContentLineStart(content, start)
    + CountNL(ContentWindow(content, start, end, W))

\* "L{line_start}-{line_end}" of a per-content match, as the pair
ContentLineNumbers(content, start, end, W) ==
    << ContentLineStart(content, start), ContentLineEnd(content, start, end, W) >>

\* the record a per-content scanner appends for a match at offset h.pos
\* (the visual identity scanner names the category field "type")
ContentRecord(sc, path, content, h) ==
    LET ln == ContentLineNumbers(content, h.pos, h.pos + 1, Window(sc))
        snippet == Strip(ContentWindow(content, h.pos, h.pos + 1, Window(sc)))
        key == PerContentTable(sc)[h.pat].category
    IN IF sc = VISUAL
       THEN [type |-> key, path |-> path, line_numbers |-> ln,
             code_snippet |-> snippet]
       ELSE [path |-> path, line_numbers |-> ln, category |-> key,
             code_snippet |-> snippet]

\* rel.lower().endswith((".<e1>", ".<e2>", ...))
EndsWithExt(r, exts) ==
    Len(r) >= 2 /\ r[Len(r) - 1] = "." /\ r[Len(r)] \in exts

\* ApiContractScannerTool._run, the OpenAPI test of a file
IsOpenapi(r, content) ==
    EndsWithExt(r, {"yaml", "yml", "json"}) /\ Search(OpenapiKey, content)

\* ApiContractScannerTool._run, the GraphQL test of a file (of graphql_type,
\* graphql_op and gql_tag the content atoms reach graphql_type only)
IsGraphql(r, content) ==
    EndsWithExt(r, {"graphql", "gql"}) \/ Search(GraphqlType, content)

\* the hits of ApiContractScannerTool._run in one file: the openapi_paths
\* record (pattern 1) and nothing else, or the first GraphQL match
\* (pattern 2) if there is one
ApiHits(r, content) ==
    IF IsOpenapi(r, content) THEN <<Hit(1, 0)>>
    ELSE IF IsGraphql(r, content) /\ Finditer(GraphqlType, content) # <<>>
         THEN <<Hit(2, Finditer(GraphqlType, content)[1])>>
    ELSE <<>>

\* the record ApiContractScannerTool._run appends; no content atom is an
\* OpenAPI path entry, so the openapi snippet is content[:400]
ApiRecord(path, content, h) ==
    IF h.pat = 1
    THEN [ path |-> path,
           line_numbers |-> <<1, Min(CountNL(content), OpenapiLineCap)>>,
           category |-> "openapi_paths",
           code_snippet |-> PySlice(content, 0, OpenapiSnippetLen) ]
    ELSE [ path |-> path,
           line_numbers |->
               ContentLineNumbers(content, h.pos, h.pos + 1, ApiWindow),
           category |-> "graphql_schema_or_operation",
           code_snippet |->
               Strip(ContentWindow(content, h.pos, h.pos + 1, ApiWindow)) ]

\* s occurs in r as consecutive atoms
Occurs(s, r) ==
    \E i \in 1..Len(r) : i + Len(s) - 1 <= Len(r) /\ SubSeq(r, i, i + Len(s) - 1) = s

\* UIRouterScannerTool._run: next_app_router or next_pages_router finds the
\* relative path ("/app/.*(page|layout)\.(tsx?|jsx?)$", "/pages/.*\.(tsx?|jsx?)$")
IsNextRouteFile(r) ==
    /\ EndsWithExt(r, {"ts", "tsx", "js", "jsx"})
    /\ \/ /\ \E i \in 1..Len(r) - 5 : SubSeq(r, i, i + 2) = <<"/", "app", "/">>
          /\ r[Len(r) - 2] \in {"page", "layout"}
       \/ \E i \in 1..Len(r) - 5 : SubSeq(r, i, i + 2) = <<"/", "pages", "/">>

\* the record UIRouterScannerTool._run appends for such a path, before the
\* file is opened
NextRouteRecord(path) ==
    [ path |-> path, line_numbers |-> <<1, 1>>,
      category |-> "next_route_file", code_snippet |-> path ]

\* VisualIdentityScannerTool._run: the frameworks whose pattern finds the
\* relative path, in the order of framework_patterns
FrameworkMarks ==
    << [framework |-> "tailwind", marks |-> { <<"tailwind", ".", "config", ".", "js">>,
                                             <<"tailwind", ".", "config", ".", "ts">> }],
       [framework |-> "bootstrap", marks |-> { <<"bootstrap", ".", "css">>,
                                              <<"bootstrap", ".", "min", ".", "css">> }],
       [framework |-> "material", marks |-> { <<"@mui">>, <<"material">> }],
       [framework |-> "chakra", marks |-> { <<"@chakra-ui", "/">> }],
       [framework |-> "ant-design", marks |-> { <<"antd">>, <<"ant-design">> }] >>

RECURSIVE FrameworkLoop(_, _)
FrameworkLoop(r, k) ==
    IF k > Len(FrameworkMarks) THEN <<>>
    ELSE (IF \E mk \in FrameworkMarks[k].marks : Occurs(mk, r)
          THEN << [ framework |-> FrameworkMarks[k].framework, path |-> r,
                    line_numbers |-> <<1, 1>>, code_snippet |-> r ] >>
          ELSE <<>>)
         \o FrameworkLoop(r, k + 1)

FrameworkRecords(r) == FrameworkLoop(r, 1)

\* VisualIdentityScannerTool._run: asset_name_patterns finds the file name
IsAssetName(f) == \E i \in 1..Len(f) : f[i] \in {"logo", "brand", "favicon", "icon"}

AssetRecords(r, f) ==
    IF IsAssetName(f)
    THEN << [path |-> r, line_numbers |-> <<1, 1>>, code_snippet |-> f] >>
    ELSE <<>>

\* ------------------------------------------------------------ arguments
\* An argument is a tagged value: t is its Python type, v its value (for a
\* value of another type than expected, v is a placeholder).
NoneV == [t |-> "none", v |-> <<>>]
ListV(v) == [t |-> "list", v |-> v]
IntV(n) == [t |-> "int", v |-> n]
StrV(x) == [t |-> "str", v |-> x]
\* a string where an integer is expected, such as "10"
StrNum == [t |-> "str", v |-> 0]
\* a number where a list is expected
NumList == [t |-> "int", v |-> <<>>]

\* the defaults of the signature of SearchRepoPatternsTool._run
DefaultMaxMatchesPerFile == 5
DefaultContextLines == 2
DefaultMaxFiles == 2000
\* the default of the signature of ListRepositoryFilesTool._run
ListerDefaultMaxFiles == 5000

Args(root, patterns, incl, excl, m, ctx, maxf) ==
    [ repo_root |-> root, patterns |-> patterns,
      include_globs |-> incl, exclude_globs |-> excl,
      max_matches_per_file |-> m, context_lines |-> ctx, max_files |-> maxf ]

\* the values tried for the caps and for context_lines
CapRange == (0 - 1)..MaxCap

IncludeMenu ==
    { NoneV,
      ListV(<< ExtGlob("py") >>),
      ListV(<< <<"*", ".", "py">>, <<"*", ".", "yaml">> >>) }

ExcludeMenu ==
    { NoneV,
      ListV(<< DirGlob("node_modules") >>),
      ListV(<< <<"node_modules", "/", "*">>, ExtGlob("py") >>),
      ListV(<< <<"*", "node_modules", "/", "*">> >>) }

\* the pattern lists tried with the generic scanner
PatternMenu ==
    { <<"a">>, <<"a", "b">>, <<"b", "a">>, <<"", "b">>, <<"a", "(">>, <<"">>, <<>> }

VARIABLES
    entry,          \* the tool whose _run was called
    payload,        \* the payload of the lenient tool
    fs,             \* the file system under repo_root
    args,           \* the arguments of the scanner's _run
    scanner,        \* the scanner whose _run is executing
    pc,             \* where the call stands
    include_globs,  \* the include list in use
    exclude_globs,  \* the exclude list in use
    compiled,       \* the compiled patterns of the generic scanner
    stack,          \* os.walk: the directories still to yield, next first
    rel_dir,        \* the directory os.walk yielded last
    filenames,      \* its files not yet looked at
    rel,            \* the relative path of the file in hand
    content,        \* what was read from it
    file_count,     \* file_count of the generic scanner
    results,        \* results / matches / tokens / matched
    frameworks,     \* frameworks of the visual identity scanner
    assets,         \* assets of the visual identity scanner
    ret,            \* the outcome of the call
    prov,           \* history: for each element of results, file and hit
    opened,         \* history: the files open() was called on, in order
    handles,        \* the files that are open
    entered         \* history: the directories os.walk yielded

\* the variables of the story generator
VARIABLES
    analysis,       \* the file at analysis_path
    gen,            \* group_by_persona and strict_mode of the call
    writable,       \* whether output_dir can be written to
    disk,           \* the files under output_dir: path -> content
    made_dirs,      \* the directories created under output_dir
    modules,        \* the modules of the analysis not yet handled
    module,         \* the module in hand
    groups,         \* its persona groups not yet written, in dict order
    written,        \* the list `written`
    twin            \* history: the output_dir the first run began on and,
                    \* once the call is repeated with the other strict_mode,
                    \* what the first run returned and left

\* a helper method called on its own
VARIABLES
    call            \* the method, its arguments and, once it is done, its result

\* the earlier runs of the generator on the same analysis and output_dir
VARIABLES
    runs            \* history: for each, its outcome and the disk it left

\* two invocations of scanners by one caller, in two threads
VARIABLES
    given,          \* the glob lists of the caller, given to both invocations
    parked,         \* the locals of the invocation that is not running now
    solo            \* history: the first invocation run alone, and its result

pairvars == << given, parked, solo >>

genvars ==
    << analysis, gen, writable, disk, made_dirs, modules, module, groups,
       written, twin >>

scanvars ==
    << entry, payload, fs, args, scanner, pc, include_globs, exclude_globs,
       compiled, stack, rel_dir, filenames, rel, content, file_count, results,
       frameworks, assets, ret, prov, opened, handles, entered >>

\* no method is called on its own during a run of a tool
NoCall == [fn |-> "none", arg |-> <<>>, pat |-> <<>>, done |-> FALSE, out |-> <<>>]

Running == [status |-> "running", value |-> <<>>]
Returned(v) == [status |-> "returned", value |-> v]
\* an exception leaves _run
Raised == [status |-> "raised", value |-> <<>>]

NoPayload == [kind |-> "none", token |-> "none", items |-> <<>>]

\* the locals of a scanner's _run before its first statement
InitLocals ==
    /\ include_globs = <<>>
    /\ exclude_globs = <<>>
    /\ compiled = <<>>
    /\ stack = <<>>
    /\ rel_dir = <<>>
    /\ filenames = <<>>
    /\ rel = <<>>
    /\ content = <<>>
    /\ file_count = 0
    /\ results = <<>>
    /\ frameworks = <<>>
    /\ assets = <<>>
    /\ ret = Running
    /\ prov = <<>>
    /\ opened = <<>>
    /\ handles = {}
    /\ entered = {}

\* a call that is not one of a pair
NoGiven == [shared |-> FALSE, include_globs |-> NoneV, exclude_globs |-> NoneV]
NoPeer == [pc |-> "none"]
NoSolo == [phase |-> "single", current |-> "first", first |-> NoPeer,
           ret |-> Running]

Unpaired ==
    /\ given = NoGiven
    /\ parked = NoPeer
    /\ solo = NoSolo

\* the first run of a call: the output_dir as it was found
FirstRun(d, md) ==
    [phase |-> "first", ret |-> Running, written |-> <<>>,
     disk |-> d, made_dirs |-> md]

\* no story generator runs during a scanner call
NoGenerator ==
    /\ twin = FirstRun({}, {})
    /\ analysis = [kind |-> "missing", has |-> {}, modules |-> <<>>]
    /\ gen = [analysis_path |-> "analysis.json", output_dir |-> "out",
              group_by_persona |-> TRUE, strict_mode |-> TRUE]
    /\ writable = "ok"
    /\ disk = {}
    /\ made_dirs = {}
    /\ modules = <<>>
    /\ module = [shape |-> "scalar", has |-> {}, name |-> <<>>,
                 functional_domain |-> <<>>, business_rules |-> <<>>]
    /\ groups = <<>>
    /\ written = <<>>

\* a scanner called on the small web repository, with the globs and the
\* file cap varied
InitWalk ==
    /\ entry \in Scanners
    /\ scanner = entry
    /\ payload = NoPayload
    /\ fs = RepoA
    /\ \E incl \in IncludeMenu, excl \in ExcludeMenu, maxf \in CapRange :
          args = Args(StrV("repo"),
                      ListV(IF entry = GENERIC THEN <<"a", "b">> ELSE <<>>),
                      incl, excl,
                      IntV(DefaultMaxMatchesPerFile), IntV(DefaultContextLines),
                      IF entry \in {GENERIC, LISTER} THEN IntV(maxf)
                      ELSE IntV(DefaultMaxFiles))
    /\ pc = "start"
    /\ InitLocals
    /\ Unpaired
    /\ NoGenerator
    /\ call = NoCall
    /\ runs = <<>>

\* the contents tried with a scanner: the per-content scanners read the
\* long file too
ContentsFor(sc) ==
    IF sc \in {GENERIC, ENDPOINT} THEN Contents ELSE Contents \cup {LongText}

\* a scanner called on a repository of one file, with the content, the
\* patterns, the match cap and the context varied
InitExtract ==
    /\ entry \in Scanners \ {LISTER}
    /\ scanner = entry
    /\ payload = NoPayload
    /\ \E text \in ContentsFor(entry),
          ext \in (IF entry = API THEN {"yaml", "ts"} ELSE {"ts"}) :
          fs = SingleFile(<<"f", ".", ext>>, text)
    /\ \E pats \in (IF entry = GENERIC THEN PatternMenu ELSE {<<>>}),
          m \in (IF entry = GENERIC THEN CapRange ELSE {DefaultMaxMatchesPerFile}),
          ctx \in (IF entry = GENERIC THEN CapRange ELSE {DefaultContextLines}) :
          args = Args(StrV("repo"), ListV(pats), NoneV, NoneV,
                      IntV(m), IntV(ctx), IntV(DefaultMaxFiles))
    /\ pc = "start"
    /\ InitLocals
    /\ Unpaired
    /\ NoGenerator
    /\ call = NoCall
    /\ runs = <<>>

\* a scanner called with its default arguments on the repository with
\* unreadable files and a symbolic link to the root
InitLinks ==
    /\ entry \in Scanners
    /\ scanner = entry
    /\ payload = NoPayload
    /\ fs = RepoB
    /\ \E incl \in {NoneV, ListV(<< ExtGlob("ts") >>)},
          maxf \in {DefaultMaxFiles, MaxCap} :
          args = Args(StrV("repo"),
                      ListV(IF entry = GENERIC THEN <<"a", "b">> ELSE <<>>),
                      incl, NoneV,
                      IntV(DefaultMaxMatchesPerFile), IntV(DefaultContextLines),
                      IF entry = GENERIC THEN IntV(maxf)
                      ELSE IF entry = LISTER THEN IntV(ListerDefaultMaxFiles)
                      ELSE IntV(DefaultMaxFiles))
    /\ pc = "start"
    /\ InitLocals
    /\ Unpaired
    /\ NoGenerator
    /\ call = NoCall
    /\ runs = <<>>

\* --------------------------------------------------- the scanner's steps
\* [re.compile(p) for p in patterns if p] raises: patterns cannot be
\* iterated, or a non-empty pattern is no regular expression
CompileRaises(patterns) ==
    \/ patterns.t \notin {"list", "str"}
    \/ \E i \in 1..Len(patterns.v) :
          patterns.v[i] # "" /\ ~IsValidRegex(patterns.v[i])

\* compiled = [re.compile(p) for p in patterns if p]
Compile(patterns) == SelectSeq(patterns.v, LAMBDA p : p # "")

\* how the statements before the walk end: an exception, the early return
\* of the generic scanner when nothing was compiled, or the walk
BeginOutcome ==
    IF scanner = GENERIC /\ CompileRaises(args.patterns) THEN "raise"
    ELSE IF scanner = GENERIC /\ Compile(args.patterns) = <<>> THEN "empty"
    ELSE IF args.repo_root.t # "str" THEN "raise"
    ELSE "walk"

\* os.walk(root) yields nothing when root cannot be listed (scandir's
\* error is swallowed); the lister returns [] when root does not exist.
\* "repo" is the path of the repository, and "." names it too (the process
\* runs in it); any other path names no directory.
WalkRoots == IF args.repo_root.v \in {"repo", "."} THEN << <<>> >> ELSE <<>>

\* the list object behind a glob argument: the caller's own list, which
\* two invocations of a pair were both given
GlobArg(k) == IF given.shared THEN given[k] ELSE args[k]

\* mutant: an empty include list of the caller is filled in place with the
\* defaults of the scanner
caller_lists_filled(g, sc) ==
    IF g.shared /\ g.include_globs.t = "list" /\ g.include_globs.v = <<>>
    THEN [g EXCEPT !.include_globs = ListV(EffectiveInclude(sc, g.include_globs))]
    ELSE g

\* the caller's lists after `include_globs = include_globs or [...]` and
\* `exclude_globs = exclude_globs or [...]`: untouched, `or` binds the
\* local name to the caller's list or to a new list
caller_lists(g, sc) == g

\* _run up to the walk: the glob defaults, the compilation, Path(repo_root)
Begin ==
    /\ pc = "start"
    /\ include_globs' = EffectiveInclude(scanner, GlobArg("include_globs"))
    /\ exclude_globs' = EffectiveExclude(scanner, GlobArg("exclude_globs"))
    /\ given' = caller_lists(given, scanner)
    /\ compiled' = IF scanner = GENERIC /\ ~CompileRaises(args.patterns)
                   THEN Compile(args.patterns) ELSE <<>>
    /\ stack' = IF BeginOutcome = "walk" THEN WalkRoots ELSE <<>>
    /\ pc' = IF BeginOutcome = "raise" THEN "done"
             ELSE IF BeginOutcome = "empty" THEN "done"
             ELSE "walk"
    /\ ret' = IF BeginOutcome = "raise" THEN Raised
              ELSE IF BeginOutcome = "empty" THEN Returned(<<>>)
              ELSE ret
    /\ UNCHANGED << handles, entry, payload, fs, args, scanner, rel_dir, filenames, rel,
                    content, file_count, results, frameworks, assets, prov,
                    opened, entered >>
    /\ UNCHANGED << genvars, call, runs, parked, solo >>

\* mutant: os.walk(root, followlinks=True) goes into symbolic links
islink_followed(path) == FALSE

\* os.path.islink(new_path)
islink(path) == path \in DOMAIN fs.links

\* the directory a path of the walk names: a leading part of the path that
\* is a symbolic link stands for the directory it points to
RECURSIVE realpath(_)
realpath(path) ==
    LET cuts == {i \in 1..(Len(path) + 1) :
                    /\ i = Len(path) + 1 \/ path[i] = "/"
                    /\ SubSeq(path, 1, i - 1) \in DOMAIN fs.links}
    IN IF cuts = {} THEN path
       ELSE LET i == CHOOSE c \in cuts : \A d \in cuts : c <= d
                target == fs.links[SubSeq(path, 1, i - 1)]
                rest == SubSeq(path, i + 1, Len(path))
            IN realpath(IF rest = <<>> THEN target ELSE JoinRel(target, rest))

\* the sub-directories os.walk goes on to after a directory: the dirnames
\* the loop body left in the list, except the symbolic links (followlinks
\* is False)
Descend(dir, dirnames, excl) ==
    LET kept == PrunedDirnames(dir, dirnames, excl)
    IN SelectSeq([i \in 1..Len(kept) |-> JoinRel(dir, kept[i])],
                 LAMBDA path : ~islink(path))

\* os.walk yields the next directory and the body prunes its dirnames
WalkDir ==
    /\ pc = "walk"
    /\ stack # <<>>
    /\ LET dir == Head(stack)
       IN /\ rel_dir' = dir
          /\ filenames' = fs.dirs[realpath(dir)].filenames
          /\ stack' = Descend(dir, fs.dirs[realpath(dir)].dirnames, exclude_globs)
                      \o Tail(stack)
          /\ entered' = entered \cup {dir}
    /\ pc' = "files"
    /\ UNCHANGED << handles, entry, payload, fs, args, scanner, include_globs,
                    exclude_globs, compiled, rel, content, file_count, results,
                    frameworks, assets, ret, prov, opened >>
    /\ UNCHANGED << genvars, call, runs, pairvars >>

\* file_count > max_files raises TypeError: an int is compared with a str
CapCompareRaises == scanner = GENERIC /\ args.max_files.t # "int"

\* file_count > max_files
\* mutant: the cap test lets one more file through
CapReachedLate(count) == scanner = GENERIC /\ count > args.max_files.v + 1

CapReached(count) == scanner = GENERIC /\ count > args.max_files.v

\* mutant: reaching the file cap is an error
FileOutcomeCapRaises(r) ==
    IF ~IsCandidate(r, include_globs, exclude_globs) THEN "skip"
    ELSE IF scanner = LISTER THEN "list"
    ELSE IF CapCompareRaises THEN "raise"
    ELSE IF CapReached(file_count + 1) THEN "raise"
    ELSE "open"

\* what the loop body does with the next file name before it opens the
\* file: "skip" (a glob test fails), "raise", "break" (the file cap),
\* "list" (the lister keeps the path) or "open"
FileOutcome(r) ==
    IF ~IsCandidate(r, include_globs, exclude_globs) THEN "skip"
    ELSE IF scanner = LISTER THEN "list"
    ELSE IF CapCompareRaises THEN "raise"
    ELSE IF CapReached(file_count + 1) THEN "break"
    ELSE "open"

\* the next file name of the directory: the glob tests, the file cap of the
\* generic scanner, the records made from the path alone; or, with no name
\* left, back to os.walk
NextFile ==
    /\ pc = "files"
    /\ IF filenames = <<>>
       THEN /\ pc' = "walk"
            /\ UNCHANGED << filenames, rel, file_count, results, frameworks,
                            assets, prov, ret >>
       ELSE LET f == Head(filenames)
                r == JoinRel(rel_dir, f)
                out == FileOutcome(r)
            IN /\ filenames' = Tail(filenames)
               /\ rel' = r
               /\ file_count' = IF scanner = GENERIC /\ out \in {"raise", "break", "open"}
                                THEN file_count + 1 ELSE file_count
               /\ results' = IF out = "list" THEN Append(results, r)
                             ELSE IF out = "open" /\ scanner = UI /\ IsNextRouteFile(r)
                             THEN Append(results, NextRouteRecord(r))
                             ELSE results
               /\ prov' = IF out = "list" \/ (out = "open" /\ scanner = UI /\ IsNextRouteFile(r))
                          THEN Append(prov, [rel |-> r, pat |-> 0, pos |-> 0])
                          ELSE prov
               /\ frameworks' = IF out = "open" /\ scanner = VISUAL
                                THEN frameworks \o FrameworkRecords(r)
                                ELSE frameworks
               /\ assets' = IF out = "open" /\ scanner = VISUAL
                            THEN assets \o AssetRecords(r, f)
                            ELSE assets
               /\ pc' = IF out = "open" THEN "open"
                        ELSE IF out = "break" THEN "return"
                        ELSE IF out = "raise" THEN "done"
                        ELSE "files"
               /\ ret' = IF out = "raise" THEN Raised ELSE ret
    /\ UNCHANGED << handles, entry, payload, fs, args, scanner, include_globs,
                    exclude_globs, compiled, stack, rel_dir, content, opened,
                    entered >>
    /\ UNCHANGED << genvars, call, runs, pairvars >>

\* mutant: a file that cannot be read ends the scan
AfterReadStop(f) == IF f.ok THEN "match" ELSE "return"

\* where the loop goes on after the try block: to the match loop, or, when
\* open() or read() raised (except Exception: continue), to the next file
AfterRead(f) == IF f.ok THEN "match" ELSE "files"

\* mutant: the file stays open when reading it raised
exit_with_leak(h, f) == IF fs.data[f].ok THEN h \ {f} ELSE h

\* the end of the with block, reached by the last statement or by an
\* exception: fh.__exit__ closes the file
exit_with(h, f) == h \ {f}

\* where open() or read() fails on a file that cannot be read: either is
\* possible
FailsAt(f) == IF f.ok THEN {"never"} ELSE {"open", "read"}

\* open(abs_path, "r", ...): the file is open, or the exception skips it
OpenFile ==
    /\ pc = "open"
    /\ opened' = Append(opened, rel)
    /\ \E at \in FailsAt(fs.data[rel]) :
          IF at = "open"
          THEN /\ handles' = handles
               /\ pc' = AfterRead(fs.data[rel])
          ELSE /\ handles' = handles \cup {rel}
               /\ pc' = "read"
    /\ UNCHANGED << entry, payload, fs, args, scanner, include_globs,
                    exclude_globs, compiled, stack, rel_dir, filenames, rel,
                    content, file_count, results, frameworks, assets, ret,
                    prov, entered >>
    /\ UNCHANGED << genvars, call, runs, pairvars >>

\* the body of the with block and its end: fh.read() or fh.readlines()
\* gives the content or raises, and the file is closed either way
ReadFile ==
    /\ pc = "read"
    /\ content' = IF fs.data[rel].ok THEN fs.data[rel].text ELSE content
    /\ handles' = exit_with(handles, rel)
    /\ pc' = AfterRead(fs.data[rel])
    /\ UNCHANGED << entry, payload, fs, args, scanner, include_globs,
                    exclude_globs, compiled, stack, rel_dir, filenames, rel,
                    file_count, results, frameworks, assets, ret, prov,
                    opened, entered >>
    /\ UNCHANGED << genvars, call, runs, pairvars >>

\* the hits of the running scanner in the file read
FileHits ==
    IF scanner = GENERIC
    THEN GenericHits(ReadLines(content, <<>>), compiled,
                     args.max_matches_per_file.v)
    ELSE IF scanner = ENDPOINT THEN EndpointHits(ReadLines(content, <<>>))
    ELSE IF scanner = UI THEN FirstMatchLoop(content, UiKeys, 1)
    ELSE IF scanner = API THEN ApiHits(rel, content)
    ELSE FinditerLoop(content, PerContentTable(scanner), 1)

\* the record the running scanner appends for a hit
FileRecord(h) ==
    IF scanner = GENERIC
    THEN GenericRecord(rel, ReadLines(content, <<>>), h.pos,
                       args.context_lines.v)
    ELSE IF scanner = ENDPOINT
    THEN EndpointRecord(rel, ReadLines(content, <<>>), h)
    ELSE IF scanner = API THEN ApiRecord(rel, content, h)
    ELSE ContentRecord(scanner, rel, content, h)

\* the match loop of the generic scanner raises TypeError: the count is
\* compared with a max_matches_per_file that is no number (after the first
\* line at the latest), or a match subtracts a context_lines that is none
MatchRaises ==
    /\ scanner = GENERIC
    /\ \/ /\ args.max_matches_per_file.t # "int"
          /\ ReadLines(content, <<>>) # <<>>
       \/ /\ args.max_matches_per_file.t = "int"
          /\ args.context_lines.t # "int"
          /\ FileHits # <<>>

\* the match loop over the content read: one record per hit, appended in
\* the order of the loop
MatchFile ==
    /\ pc = "match"
    /\ IF MatchRaises
       THEN /\ pc' = "done"
            /\ ret' = Raised
            /\ UNCHANGED << results, prov >>
       ELSE /\ results' = results \o [i \in 1..Len(FileHits) |-> FileRecord(FileHits[i])]
            /\ prov' = prov \o [i \in 1..Len(FileHits) |->
                                   [rel |-> rel, pat |-> FileHits[i].pat,
                                    pos |-> FileHits[i].pos]]
            /\ pc' = "files"
            /\ ret' = ret
    /\ UNCHANGED << handles, entry, payload, fs, args, scanner, include_globs,
                    exclude_globs, compiled, stack, rel_dir, filenames, rel,
                    content, file_count, frameworks, assets, opened, entered >>
    /\ UNCHANGED << genvars, call, runs, pairvars >>

\* os.path.splitext(path)[1].lower() or "<no_ext>"
Ext(path) ==
    IF Len(path) >= 3 /\ path[Len(path) - 1] = "." /\ path[Len(path) - 2] # "/"
    THEN <<".", path[Len(path)]>>
    ELSE <<"<no_ext>">>

\* ListRepositoryFilesTool._run: files[:max_files] when there are more
CappedFiles(files, max_files) ==
    IF Len(files) > max_files THEN PySlice(files, 0, max_files) ELSE files

\* ListRepositoryFilesTool._run: the result built from the files found
ListerResult(files) ==
    [ files |-> files,
      extensions |-> [e \in {Ext(files[i]) : i \in 1..Len(files)} |->
                         Cardinality({i \in 1..Len(files) : Ext(files[i]) = e})],
      count |-> Len(files) ]

\* the value json.dumps serializes at the end of the running scanner
ReturnValue ==
    IF scanner = LISTER
    THEN ListerResult(CappedFiles(results, args.max_files.v))
    ELSE IF scanner = VISUAL
    THEN [frameworks |-> frameworks, tokens |-> results, assets |-> assets]
    ELSE results

\* the walk is over (exhausted, or left by the file cap): _run returns
Return ==
    /\ \/ pc = "return"
       \/ pc = "walk" /\ stack = <<>>
    /\ pc' = "done"
    /\ ret' = Returned(ReturnValue)
    /\ UNCHANGED << handles, entry, payload, fs, args, scanner, include_globs,
                    exclude_globs, compiled, stack, rel_dir, filenames, rel,
                    content, file_count, results, frameworks, assets, prov,
                    opened, entered >>
    /\ UNCHANGED << genvars, call, runs, pairvars >>

\* ------------------------------------------------------ the lenient tool
\* A payload is the raw string given to RobustSearchRepoPatternsTool._run:
\* kind says what json.loads makes of it ("text": it raises; "dict",
\* "list", "scalar": the type of the value), items are the object itself
\* (kind "dict") or the elements of the array (kind "list"), and token is
\* the first path-like token of the raw string ("none": there is none).
\* An item is a JSON object (t = "dict") with the keys `has` and their
\* values, or any other JSON value (t = "scalar").
Obj(has, val) == [t |-> "dict", has |-> has, val |-> val]
Scalar == [t |-> "scalar", has |-> {},
           val |-> Args(NoneV, NoneV, NoneV, NoneV, NoneV, NoneV, NoneV)]
Payload(kind, token, items) == [kind |-> kind, token |-> token, items |-> items]

RequiredKeys == {"repo_root", "patterns"}

\* isinstance(item, dict) and "repo_root" in item and "patterns" in item
IsConfig(item) == item.t = "dict" /\ RequiredKeys \subseteq item.has

NoCfg == [found |-> FALSE, cfg |-> Scalar]
Cfg(item) == [found |-> TRUE, cfg |-> item]

\* the first element of an array that is a config
RECURSIVE FirstConfig(_)
FirstConfig(items) ==
    IF items = <<>> THEN NoCfg
    ELSE IF IsConfig(Head(items)) THEN Cfg(Head(items))
    ELSE FirstConfig(Tail(items))

\* RobustSearchRepoPatternsTool._try_parse
try_parse(p) ==
    IF p.kind = "text" THEN NoCfg
    ELSE IF p.kind = "dict" /\ IsConfig(p.items[1]) THEN Cfg(p.items[1])
    ELSE IF p.kind = "list" THEN FirstConfig(p.items)
    ELSE NoCfg

\* the default patterns of _heuristic_extract
HeuristicPatterns ==
    << "export default", "export const", "export function",
       "class\\\\s+\\\\w+", HeuristicDefPattern >>

\* RobustSearchRepoPatternsTool._heuristic_extract
heuristic_extract(p) ==
    Obj(RequiredKeys,
        Args(StrV(IF p.token = "none" THEN "." ELSE p.token),
             ListV(HeuristicPatterns),
             NoneV, NoneV, NoneV, NoneV, NoneV))

\* cfg.get(key, default)
Get(cfg, key, default) == IF key \in cfg.has THEN cfg.val[key] ELSE default

\* the config _run works with: the parsed one, else the heuristic one
ChosenConfig(p) ==
    IF try_parse(p).found THEN try_parse(p).cfg ELSE heuristic_extract(p)

\* the arguments _run passes to SearchRepoPatternsTool._run
InnerArgs(cfg) ==
    Args(Get(cfg, "repo_root", StrV(".")),
         Get(cfg, "patterns", ListV(<<>>)),
         Get(cfg, "include_globs", NoneV),
         Get(cfg, "exclude_globs", NoneV),
         Get(cfg, "max_matches_per_file", IntV(DefaultMaxMatchesPerFile)),
         Get(cfg, "context_lines", IntV(DefaultContextLines)),
         Get(cfg, "max_files", IntV(DefaultMaxFiles)))

\* RobustSearchRepoPatternsTool._run up to the call of the strict tool
RobustParse ==
    /\ pc = "parse"
    /\ args' = InnerArgs(ChosenConfig(payload))
    /\ pc' = "start"
    /\ UNCHANGED << handles, entry, payload, fs, scanner, include_globs, exclude_globs,
                    compiled, stack, rel_dir, filenames, rel, content,
                    file_count, results, frameworks, assets, ret, prov, opened,
                    entered >>
    /\ UNCHANGED << genvars, call, runs, pairvars >>

\* the objects tried as configs
AllKeys == { "repo_root", "patterns", "include_globs", "exclude_globs",
             "max_matches_per_file", "context_lines", "max_files" }

CfgOf(root, patterns, m, ctx, maxf) ==
    Args(root, patterns, ListV(<< <<"*", ".", "py">> >>), NoneV, m, ctx, maxf)

GoodCfg == Obj(RequiredKeys,
               CfgOf(StrV("repo"), ListV(<<"a", "b">>), NoneV, NoneV, NoneV))
FullCfg == Obj(AllKeys,
               CfgOf(StrV("repo"), ListV(<<"a", "b">>), IntV(1), IntV(0), IntV(1)))
StrPatternsCfg == Obj(AllKeys,
               CfgOf(StrV("repo"), StrV(<<"a", "b">>), IntV(1), IntV(0), IntV(1)))
BadRegexCfg == Obj(AllKeys,
               CfgOf(StrV("repo"), ListV(<<"a", "(">>), IntV(1), IntV(0), IntV(1)))
NumPatternsCfg == Obj(AllKeys,
               CfgOf(StrV("repo"), NumList, IntV(1), IntV(0), IntV(1)))
BadMaxFilesCfg == Obj(AllKeys,
               CfgOf(StrV("repo"), ListV(<<"a", "b">>), IntV(1), IntV(0), StrNum))
BadMatchCapCfg == Obj(AllKeys,
               CfgOf(StrV("repo"), ListV(<<"a", "b">>), StrNum, IntV(0), IntV(1)))
BadContextCfg == Obj(AllKeys,
               CfgOf(StrV("repo"), ListV(<<"a", "b">>), IntV(1), StrNum, IntV(1)))
BadRootCfg == Obj(AllKeys,
               CfgOf(NumList, ListV(<<"a", "b">>), IntV(1), IntV(0), IntV(1)))
MissingRootCfg == Obj(RequiredKeys,
               CfgOf(StrV("missing"), ListV(<<"a", "b">>), NoneV, NoneV, NoneV))
NoPatternsKeyCfg == Obj({"repo_root"},
               CfgOf(StrV("repo"), NoneV, NoneV, NoneV, NoneV))
NoRootKeyCfg == Obj({"patterns"},
               CfgOf(NoneV, ListV(<<"a", "b">>), NoneV, NoneV, NoneV))

ConfigMenu ==
    { GoodCfg, FullCfg, StrPatternsCfg, BadRegexCfg, NumPatternsCfg,
      BadMaxFilesCfg, BadMatchCapCfg, BadContextCfg, BadRootCfg,
      MissingRootCfg, NoPatternsKeyCfg, NoRootKeyCfg }

Tokens == {"none", "repo", "missing"}

\* the payloads tried: text that is no JSON, a JSON scalar, a JSON object,
\* a JSON array of up to three values
PayloadMenu ==
    {Payload("text", tk, <<>>) : tk \in Tokens}
    \cup {Payload("scalar", "none", <<>>)}
    \cup {Payload("dict", tk, <<c>>) : tk \in {"none", "repo"}, c \in ConfigMenu}
    \cup {Payload("list", "repo", items) :
            items \in { <<>>, <<Scalar>>, <<Scalar, GoodCfg>>,
                        <<NoPatternsKeyCfg, FullCfg, BadRegexCfg>>,
                        <<BadRegexCfg, GoodCfg>>,
                        <<NoRootKeyCfg, Scalar, NoPatternsKeyCfg>> }}

\* the lenient tool called on the small web repository
InitRobust ==
    /\ entry = ROBUST
    /\ scanner = GENERIC
    /\ payload \in PayloadMenu
    /\ fs = RepoA
    /\ args = Scalar.val
    /\ pc = "parse"
    /\ InitLocals
    /\ Unpaired
    /\ NoGenerator
    /\ call = NoCall
    /\ runs = <<>>

\* ====================================================== the story generator
\* GenerateGherkinStoriesTool, by its `name` attribute
GENERATOR == "generate_gherkin_stories"

\* Text is a sequence of atoms, each a run of characters. str.lower() is
\* modelled on the atoms that spell a keyword, or a part of one, in another
\* letter case; the other atoms hold no keyword in any case.
Lower(a) ==
    CASE a = "ADMIN" -> "admin"
      [] a = "Admin" -> "admin"
      [] a = "ISTRADOR" -> "istrador"
      [] a = "Player" -> "player"
      [] a = "API" -> "api"
      [] a = "User" -> "user"
      [] OTHER -> a

\* rule_text.lower()
LowerText(text) == [i \in 1..Len(text) |-> Lower(text[i])]

\* the keyword lists of _detect_persona, in the order they are tested
AdminKeywords == << <<"admin">>, <<"admin", "istrador">>, <<"moderador">>, <<"operador">> >>
PlayerKeywords == << <<"jogador">>, <<"player">> >>
SystemKeywords == << <<"sistema">>, <<"api">>, <<"serviço">>, <<"servico">> >>
UserKeywords == << <<"usuário">>, <<"usuario">>, <<"user">> >>

\* any(k in text for k in keywords)
AnyIn(keywords, text) == \E i \in 1..Len(keywords) : Occurs(keywords[i], text)

Personas == {"Administrador", "Jogador", "Sistema", "Usuário"}

\* mutant: the player keywords are tested before the administrator ones
detect_persona_PlayerFirst(rule_text) ==
    LET text == LowerText(rule_text)
    IN IF AnyIn(PlayerKeywords, text) THEN "Jogador"
       ELSE IF AnyIn(AdminKeywords, text) THEN "Administrador"
       ELSE IF AnyIn(SystemKeywords, text) THEN "Sistema"
       ELSE "Usuário"

\* GenerateGherkinStoriesTool._detect_persona
detect_persona(rule_text) ==
    LET text == LowerText(rule_text)
    IN IF AnyIn(AdminKeywords, text) THEN "Administrador"
       ELSE IF AnyIn(PlayerKeywords, text) THEN "Jogador"
       ELSE IF AnyIn(SystemKeywords, text) THEN "Sistema"
       ELSE IF AnyIn(UserKeywords, text) THEN "Usuário"
       ELSE "Usuário"

\* the atoms of a module name that are runs of letters and digits
AlnumAtoms == {"Auth", "Game", "A", "B", "My", "Mod"}

\* c.isalnum() or c in (" ", "-", "_")
IsKept(c) == c \in AlnumAtoms \cup {" ", "-", "_"}

\* "".join(c for c in name if ...)
RECURSIVE KeepSafe(_)
KeepSafe(name) ==
    IF name = <<>> THEN <<>>
    ELSE (IF IsKept(Head(name)) THEN <<Head(name)>> ELSE <<>>) \o KeepSafe(Tail(name))

\* safe.strip(): of the kept characters only the space is white
RECURSIVE StripLeft(_)
StripLeft(s) == IF s # <<>> /\ Head(s) = " " THEN StripLeft(Tail(s)) ELSE s
RECURSIVE StripRight(_)
StripRight(s) ==
    IF s # <<>> /\ s[Len(s)] = " " THEN StripRight(SubSeq(s, 1, Len(s) - 1)) ELSE s

\* .replace(" ", "_")
SpacesToUnderscores(s) == [i \in 1..Len(s) |-> IF s[i] = " " THEN "_" ELSE s[i]]

\* mutant: the characters the name must not hold are not removed
sanitize_filename_KeepAll(name) ==
    LET safe == SpacesToUnderscores(StripRight(StripLeft(name)))
    IN IF safe = <<>> THEN <<"module">> ELSE safe

\* GenerateGherkinStoriesTool._sanitize_filename
sanitize_filename(name) ==
    LET safe == SpacesToUnderscores(StripRight(StripLeft(KeepSafe(name))))
    IN IF safe = <<>> THEN <<"module">> ELSE safe

\* ---------------------------------------------------- analysis documents
\* an entry of a rule's `files`
FileRef(path, ln) == [path |-> path, line_numbers |-> ln]

\* a business rule: a JSON object with the keys in `has`, or a JSON value
\* that is no object; `str` tells whether its "rule" is a string
RuleObj(has, str, text, files) ==
    [shape |-> "dict", has |-> has, str |-> str, rule |-> text, files |-> files]
Rule(text, files) == RuleObj({"rule", "files"}, TRUE, text, files)
ScalarRule == [shape |-> "scalar", has |-> {}, str |-> FALSE, rule |-> <<>>, files |-> <<>>]

\* a module: a JSON object with the keys in `has`, or a JSON value that is
\* no object
ModuleObj(has, name, domain, rules) ==
    [shape |-> "dict", has |-> has, name |-> name, functional_domain |-> domain,
     business_rules |-> rules]
Module(name, domain, rules) ==
    ModuleObj({"name", "functional_domain", "business_rules"}, name, domain, rules)
ScalarModule ==
    [shape |-> "scalar", has |-> {}, name |-> <<>>, functional_domain |-> <<>>,
     business_rules |-> <<>>]

\* the file at analysis_path: absent, unreadable, no JSON, JSON that is no
\* object, or a JSON object with or without the key "modules"
Analysis(kind, has, mods) == [kind |-> kind, has |-> has, modules |-> mods]
Doc(mods) == Analysis("doc", {"modules"}, mods)

PasswordRule ==
    Rule(<<"Password must be 8+ characters">>,
         << FileRef(<<"/repo/auth.ts">>, <<"L10-L12">>) >>)
AdminRule ==
    Rule(<<"Only ", "ADMIN", "ISTRADOR", " may ban a ", "player">>,
         << FileRef(<<"/repo/ban.ts">>, <<"L1-L3">>),
            FileRef(<<"/repo/acl.ts">>, <<"L7-L9">>) >>)
PlayerRule == Rule(<<"The ", "Player", " gains XP">>, <<>>)
RapidRule == Rule(<<"r", "api", "d", " checkout">>, <<>>)
UserApiRule == Rule(<<"A ", "User", " calls the ", "API">>, <<>>)
LevelRule ==
    Rule(<<"A ", "player", " levels up">>, << FileRef(<<"/repo/xp.ts">>, <<"L5-L6">>) >>)
UntitledRule == RuleObj({}, TRUE, <<>>, <<>>)
NumberRule == RuleObj({"rule"}, FALSE, <<>>, <<>>)

AuthModule == Module(<<"Auth">>, <<"Security">>, <<PasswordRule>>)
GameModule ==
    Module(<<"Game">>, <<"Play">>, <<PlayerRule, AdminRule, PasswordRule, RapidRule>>)

\* the analysis documents tried
DocMenu ==
    { Doc(<<AuthModule>>),
      Doc(<<GameModule>>),
      Doc(<<AuthModule, GameModule>>),
      Doc(<< Module(<<"Game">>, <<"Play">>, <<PlayerRule, AdminRule, LevelRule>>) >>),
      Doc(<< Module(<<"A", "/", "B">>, <<"X">>, <<PasswordRule>>),
             Module(<<"A", "B">>, <<"Y">>, <<UserApiRule, PlayerRule>>) >>),
      Doc(<< Module(<<" ", "My", " ", "Mod", " ">>, <<"X">>, <<PasswordRule>>),
             Module(<<".", ".">>, <<"Y">>, <<UntitledRule>>) >>),
      Doc(<< Module(<<".", ".", "/", ".", ".", "\\", "Game">>, <<"X">>, <<PasswordRule>>),
             Module(<<".">>, <<"Y">>, <<AdminRule>>) >>),
      Doc(<< ModuleObj({}, <<>>, <<>>, <<>>),
             Module(<<"Auth">>, <<"Security">>, <<>>) >>),
      Doc(<<AuthModule, ScalarModule>>),
      Doc(<< AuthModule, Module(<<"Game">>, <<"Play">>, <<PlayerRule, ScalarRule>>) >>),
      Doc(<< Module(<<"Game">>, <<"Play">>, <<NumberRule>>) >>),
      Doc(<<>>),
      Analysis("doc", {}, <<>>) }

AnalysisMenu ==
    DocMenu \cup {Analysis(k, {}, <<>>) : k \in {"missing", "unreadable", "invalid", "scalar"}}

\* ------------------------------------------------------ the generator's run
\* d.get(key, default) on a JSON object
GetKey(obj, key, default) == IF key \in obj.has THEN obj[key] ELSE default

\* persona_to_rules.setdefault(persona, []).append(br): a dict keeps its
\* keys in the order they were first inserted
AddToGroup(acc, persona, br) ==
    IF \E i \in 1..Len(acc) : acc[i].persona = persona
    THEN [i \in 1..Len(acc) |->
            IF acc[i].persona = persona
            THEN [acc[i] EXCEPT !.rules = Append(@, br)] ELSE acc[i]]
    ELSE Append(acc, [persona |-> persona, rules |-> <<br>>])

\* the loop "for br in business_rules"
RECURSIVE GroupRules(_, _)
GroupRules(brs, acc) ==
    IF brs = <<>> THEN acc
    ELSE GroupRules(Tail(brs),
                    AddToGroup(acc, detect_persona(GetKey(Head(brs), "rule", <<>>)),
                               Head(brs)))

\* br.get on a value that is no object, or .lower() on a rule that is no
\* string, raises AttributeError
GroupingRaises(brs) ==
    \E i \in 1..Len(brs) :
        \/ brs[i].shape # "dict"
        \/ "rule" \in brs[i].has /\ ~brs[i].str

\* mutant: the entries of `files` are taken last first
EvidenceLinesReversed(files) ==
    [i \in 1..Len(files) |->
        <<"  # evidence: ">> \o files[Len(files) + 1 - i].path \o <<" ">>
            \o files[Len(files) + 1 - i].line_numbers]

\* the lines appended for the entries of `files`
EvidenceLines(files) ==
    [i \in 1..Len(files) |->
        <<"  # evidence: ">> \o files[i].path \o <<" ">> \o files[i].line_numbers]

GivenLine == <<"  Given uma situação relevante para a regra">>
WhenLine == <<"  When a condição descrita na regra ocorre">>

\* mutant: a step of its own making follows the Then line
ScenarioLinesInvented(br) ==
    LET title == GetKey(br, "rule", <<"Regra">>)
    IN << <<"Scenario: ">> \o title, GivenLine, WhenLine, <<"  Then ">> \o title,
          <<"  And o resultado é registrado">> >>
       \o EvidenceLines(GetKey(br, "files", <<>>))
       \o << <<>> >>

\* mutant: without strict_mode a step of its own making follows the Then line
ScenarioLinesLenient(br) ==
    LET title == GetKey(br, "rule", <<"Regra">>)
    IN << <<"Scenario: ">> \o title, GivenLine, WhenLine, <<"  Then ">> \o title >>
       \o (IF gen.strict_mode THEN <<>> ELSE << <<"  And o resultado é registrado">> >>)
       \o EvidenceLines(GetKey(br, "files", <<>>))
       \o << <<>> >>

\* the lines appended for one rule
ScenarioLines(br) ==
    LET title == GetKey(br, "rule", <<"Regra">>)
    IN << <<"Scenario: ">> \o title, GivenLine, WhenLine, <<"  Then ">> \o title >>
       \o EvidenceLines(GetKey(br, "files", <<>>))
       \o << <<>> >>

RECURSIVE AllScenarioLines(_)
AllScenarioLines(rules) ==
    IF rules = <<>> THEN <<>>
    ELSE ScenarioLines(Head(rules)) \o AllScenarioLines(Tail(rules))

\* mutant: the title line leaves the functional domain out
FeatureLinesNoDomain(module_name, functional_domain, persona, rules) ==
    << <<"Feature: ">> \o module_name, <<>>, <<"# Persona: ", persona>>, <<>> >>
    \o AllScenarioLines(rules)

\* the list `lines` of one (module, persona) group
FeatureLines(module_name, functional_domain, persona, rules) ==
    << <<"Feature: ">> \o module_name \o <<" (">> \o functional_domain \o <<")">>,
       <<>>,
       <<"# Persona: ", persona>>,
       <<>> >>
    \o AllScenarioLines(rules)

\* "\n".join(lines)
RECURSIVE Join(_)
Join(lines) ==
    IF lines = <<>> THEN <<>>
    ELSE IF Len(lines) = 1 THEN lines[1]
    ELSE lines[1] \o <<NL>> \o Join(Tail(lines))

ModuleName(m) == GetKey(m, "name", <<"Module">>)

\* mutant: the persona's directory is used whatever group_by_persona is
BaseDirAlwaysPersona(persona) == <<gen.output_dir, "/", persona>>

\* base_dir: output_dir, or the persona's directory under it
BaseDir(persona) ==
    IF gen.group_by_persona THEN <<gen.output_dir, "/", persona>>
    ELSE <<gen.output_dir>>

\* mutant: the module name goes into the file name as it is
FilePathRawName(m, persona) ==
    BaseDir(persona) \o <<"/">> \o ModuleName(m) \o <<".md">>

\* filepath = base_dir / f"{_sanitize_filename(module_name)}.md"
FilePath(m, persona) ==
    BaseDir(persona) \o <<"/">> \o sanitize_filename(ModuleName(m)) \o <<".md">>

\* json.dumps({"written": [], "error": ...}) and json.dumps({"written": written})
ErrorResult ==
    [has |-> {"written", "error"}, written |-> <<>>,
     error |-> <<"analysis.json não encontrado ou inválido em ", gen.analysis_path>>]
WrittenResult(w) == [has |-> {"written"}, written |-> w, error |-> <<>>]

\* mutant: a file that cannot be read or parsed is taken for a document
LoadFailsOnlyMissing == analysis.kind = "missing"
\* the file cannot be loaded: p.exists() is false, read_text raises, or
\* json.loads raises
LoadFails == analysis.kind \in {"missing", "unreadable", "invalid"}

\* what a generator step leaves alone of the scanners' variables
scanlocals ==
    << entry, payload, fs, args, scanner, include_globs, exclude_globs,
       compiled, stack, rel_dir, filenames, rel, content, file_count, results,
       frameworks, assets, prov, opened, handles, entered >>

\* _run up to "written = []": the analysis is loaded, or the call ends
GenLoad ==
    /\ pc = "gen_load"
    /\ IF LoadFails
       THEN /\ ret' = Returned(ErrorResult)
            /\ pc' = "done"
            /\ UNCHANGED modules
       ELSE IF analysis.kind # "doc"
       THEN /\ ret' = Raised
            /\ pc' = "done"
            /\ UNCHANGED modules
       ELSE /\ modules' = GetKey(analysis, "modules", <<>>)
            /\ pc' = "gen_module"
            /\ UNCHANGED ret
    /\ written' = <<>>
    /\ UNCHANGED << twin, analysis, gen, writable, disk, made_dirs, module, groups >>
    /\ UNCHANGED << scanlocals, call, runs, pairvars >>

\* the next module is taken and its rules are grouped by persona
GenModule ==
    /\ pc = "gen_module"
    /\ modules # <<>>
    /\ module' = Head(modules)
    /\ modules' = Tail(modules)
    /\ IF Head(modules).shape # "dict"
          \/ GroupingRaises(GetKey(Head(modules), "business_rules", <<>>))
       THEN /\ ret' = Raised
            /\ pc' = "done"
            /\ UNCHANGED groups
       ELSE /\ groups' = GroupRules(GetKey(Head(modules), "business_rules", <<>>), <<>>)
            /\ pc' = IF groups' = <<>> THEN "gen_module" ELSE "gen_write"
            /\ UNCHANGED ret
    /\ UNCHANGED << twin, analysis, gen, writable, disk, made_dirs, written >>
    /\ UNCHANGED << scanlocals, call, runs, pairvars >>

\* mutant: the text is appended to a file that is already there
write_text_Append(d, filepath, text) ==
    LET old == {f \in d : f.path = filepath}
    IN (d \ old)
       \cup {[path |-> filepath,
              content |-> (IF old = {} THEN <<>>
                           ELSE (CHOOSE f \in old : TRUE).content) \o text]}
\* filepath.write_text(...): the file is created or replaced
write_text(d, filepath, text) ==
    {f \in d : f.path # filepath} \cup {[path |-> filepath, content |-> text]}

\* the document of the next persona group is composed and written
GenWrite ==
    /\ pc = "gen_write"
    /\ groups # <<>>
    /\ LET group == Head(groups)
           text == Join(FeatureLines(ModuleName(module),
                                     GetKey(module, "functional_domain", <<>>),
                                     group.persona, group.rules))
           filepath == FilePath(module, group.persona)
       IN /\ made_dirs' = IF writable = "no_mkdir" THEN made_dirs
                          ELSE made_dirs \cup {<<gen.output_dir>>, BaseDir(group.persona)}
          /\ IF writable = "ok"
             THEN /\ disk' = write_text(disk, filepath, text)
                  /\ written' = Append(written, filepath)
                  /\ groups' = Tail(groups)
                  /\ pc' = IF Tail(groups) = <<>> THEN "gen_module" ELSE "gen_write"
                  /\ UNCHANGED ret
             ELSE /\ ret' = Raised
                  /\ pc' = "done"
                  /\ UNCHANGED << disk, written, groups >>
    /\ UNCHANGED << twin, analysis, gen, writable, modules, module >>
    /\ UNCHANGED << scanlocals, call, runs, pairvars >>

\* return json.dumps({"written": written})
GenReturn ==
    /\ pc = "gen_module"
    /\ modules = <<>>
    /\ ret' = Returned(WrittenResult(written))
    /\ pc' = "done"
    /\ UNCHANGED << genvars, call, runs, pairvars >>
    /\ UNCHANGED scanlocals

\* _run is called again with the same arguments, on what the run before
\* left on disk
GenAgain ==
    /\ entry = GENERATOR
    /\ pc = "done"
    /\ Len(runs) + 1 < MaxRuns
    /\ runs' = Append(runs, [ret |-> ret, written |-> written, disk |-> disk,
                             made_dirs |-> made_dirs])
    /\ pc' = "gen_load"
    /\ ret' = Running
    /\ modules' = <<>>
    /\ module' = ScalarModule
    /\ groups' = <<>>
    /\ written' = <<>>
    /\ UNCHANGED << twin, analysis, gen, writable, disk, made_dirs >>
    /\ UNCHANGED << scanlocals, call, pairvars >>

\* _run is called with the other value of strict_mode, everything else as
\* in the first call, on the output_dir the first call began on
GenOther ==
    /\ entry = GENERATOR
    /\ pc = "done"
    /\ runs = <<>>
    /\ twin.phase = "first"
    /\ twin' = [phase |-> "second", ret |-> ret, written |-> written,
                disk |-> disk, made_dirs |-> made_dirs]
    /\ gen' = [gen EXCEPT !.strict_mode = ~gen.strict_mode]
    /\ disk' = twin.disk
    /\ made_dirs' = twin.made_dirs
    /\ pc' = "gen_load"
    /\ ret' = Running
    /\ modules' = <<>>
    /\ module' = ScalarModule
    /\ groups' = <<>>
    /\ written' = <<>>
    /\ UNCHANGED << analysis, writable >>
    /\ UNCHANGED << scanlocals, call, runs, pairvars >>

\* a story file left by an earlier run
StaleFile ==
    [path |-> <<"out", "/", "Usuário", "/", "Auth", ".md">>, content |-> <<"old">>]

\* the generator called on an analysis file, with the flags, the state of
\* output_dir and the analysis varied
InitGen ==
    /\ entry = GENERATOR
    /\ scanner = GENERATOR
    /\ payload = NoPayload
    /\ fs = SingleFile(<<"f", ".", "ts">>, <<>>)
    /\ args = Scalar.val
    /\ pc = "gen_load"
    /\ InitLocals
    /\ Unpaired
    /\ analysis \in AnalysisMenu
    /\ \E g \in BOOLEAN, s \in BOOLEAN :
          gen = [analysis_path |-> "analysis.json", output_dir |-> "out",
                 group_by_persona |-> g, strict_mode |-> s]
    /\ writable \in {"ok", "no_mkdir", "no_write"}
    /\ \/ disk = {} /\ made_dirs = {}
       \/ /\ disk = {StaleFile}
          /\ made_dirs = {<<"out">>, <<"out", "/", "Usuário">>}
    /\ twin = FirstRun(disk, made_dirs)
    /\ modules = <<>>
    /\ module = ScalarModule
    /\ groups = <<>>
    /\ written = <<>>
    /\ call = NoCall
    /\ runs = <<>>

\* ================================================ helper methods on their own
\* the rule texts tried with _detect_persona: "x" is a run of characters that
\* holds no keyword and forms none with its neighbours
PersonaAtoms ==
    {"admin", "ADMIN", "istrador", "ISTRADOR", "operador", "jogador", "player",
     "sistema", "API", "usuario", "user", "x"}

\* the module names tried with _sanitize_filename
NameAtoms == {"A", "B", " ", "-", "_", "/", "."}

\* the paths and the globs tried with fnmatch.fnmatch: the ones of the
\* walk over the small web repository, and all short ones
GlobNames ==
    { <<"setup", ".", "py">>, <<"node_modules", "/">>,
      <<"src", "/", "node_modules", "/">>, <<"src", "/", "main", ".", "py">>,
      <<"src", "/", "app", "/", "page", ".", "tsx">> }
    \cup SeqsUpTo({"a", "/"}, MaxLen)
GlobPatterns ==
    { ExtGlob("py"), DirGlob("node_modules"), <<"*", ".", "py">>,
      <<"src", "/", "*">>, <<"*", "*">> }
    \cup SeqsUpTo({"*", "a", "/"}, MaxLen)

Call(fn, arg, pat) == [fn |-> fn, arg |-> arg, pat |-> pat, done |-> FALSE, out |-> <<>>]

\* a helper is about to be called on one of the inputs; no tool runs
InitCall ==
    /\ \/ \E text \in SeqsUpTo(PersonaAtoms, MaxLen) :
             call = Call("_detect_persona", text, <<>>)
       \/ \E name \in SeqsUpTo(NameAtoms, MaxLen) :
             call = Call("_sanitize_filename", name, <<>>)
       \/ \E name \in GlobNames, pat \in GlobPatterns :
             call = Call("fnmatch", name, pat)
    /\ entry = "none"
    /\ scanner = "none"
    /\ payload = NoPayload
    /\ fs = SingleFile(<<"f", ".", "ts">>, <<>>)
    /\ args = Scalar.val
    /\ pc = "idle"
    /\ InitLocals
    /\ Unpaired
    /\ NoGenerator
    /\ runs = <<>>

\* self._detect_persona(rule_text)
DetectPersonaCall ==
    /\ call.fn = "_detect_persona"
    /\ ~call.done
    /\ call' = [call EXCEPT !.done = TRUE, !.out = detect_persona(call.arg)]
    /\ UNCHANGED << scanvars, genvars, runs, pairvars >>

\* self._sanitize_filename(module_name)
SanitizeCall ==
    /\ call.fn = "_sanitize_filename"
    /\ ~call.done
    /\ call' = [call EXCEPT !.done = TRUE, !.out = sanitize_filename(call.arg)]
    /\ UNCHANGED << scanvars, genvars, runs, pairvars >>

\* fnmatch.fnmatch(rel, pattern)
FnmatchCall ==
    /\ call.fn = "fnmatch"
    /\ ~call.done
    /\ call' = [call EXCEPT !.done = TRUE, !.out = fnmatch(call.arg, call.pat)]
    /\ UNCHANGED << scanvars, genvars, runs, pairvars >>

\* ------------------------------------------------ two invocations at once
\* The caller runs two scanners over the same repository in two threads
\* and gives both the same include and exclude list objects.  One
\* invocation runs at a time; the locals of the other are parked, and a
\* switch of threads can come between any two steps.  Before the two run
\* together, the first is run alone, for its result to compare with.
PairScanners == {GENERIC, LISTER, UI}

PairArgs(sc, incl) ==
    Args(StrV("repo"), ListV(IF sc = GENERIC THEN <<"a", "b">> ELSE <<>>),
         incl, ListV(<<>>),
         IntV(DefaultMaxMatchesPerFile), IntV(DefaultContextLines),
         IntV(IF sc = LISTER THEN ListerDefaultMaxFiles ELSE DefaultMaxFiles))

\* the locals of an invocation of scanner sc before its first statement
StartOf(sc, incl) ==
    [ entry |-> sc, payload |-> NoPayload, args |-> PairArgs(sc, incl),
      scanner |-> sc, pc |-> "start", include_globs |-> <<>>,
      exclude_globs |-> <<>>, compiled |-> <<>>, stack |-> <<>>,
      rel_dir |-> <<>>, filenames |-> <<>>, rel |-> <<>>, content |-> <<>>,
      file_count |-> 0, results |-> <<>>, frameworks |-> <<>>,
      assets |-> <<>>, ret |-> Running, prov |-> <<>>, opened |-> <<>>,
      handles |-> {}, entered |-> {} ]

\* the locals of the running invocation
Snapshot ==
    [ entry |-> entry, payload |-> payload, args |-> args,
      scanner |-> scanner, pc |-> pc, include_globs |-> include_globs,
      exclude_globs |-> exclude_globs, compiled |-> compiled,
      stack |-> stack, rel_dir |-> rel_dir, filenames |-> filenames,
      rel |-> rel, content |-> content, file_count |-> file_count,
      results |-> results, frameworks |-> frameworks, assets |-> assets,
      ret |-> ret, prov |-> prov, opened |-> opened, handles |-> handles,
      entered |-> entered ]

\* the invocation with the locals st runs from now on
Resume(st) ==
    /\ entry' = st.entry
    /\ payload' = st.payload
    /\ args' = st.args
    /\ scanner' = st.scanner
    /\ pc' = st.pc
    /\ include_globs' = st.include_globs
    /\ exclude_globs' = st.exclude_globs
    /\ compiled' = st.compiled
    /\ stack' = st.stack
    /\ rel_dir' = st.rel_dir
    /\ filenames' = st.filenames
    /\ rel' = st.rel
    /\ content' = st.content
    /\ file_count' = st.file_count
    /\ results' = st.results
    /\ frameworks' = st.frameworks
    /\ assets' = st.assets
    /\ ret' = st.ret
    /\ prov' = st.prov
    /\ opened' = st.opened
    /\ handles' = st.handles
    /\ entered' = st.entered

\* the caller's lists: empty ones (the defaults apply) or one glob
GivenMenu ==
    { [shared |-> TRUE, include_globs |-> incl, exclude_globs |-> ListV(<<>>)] :
        incl \in {ListV(<<>>), ListV(<< ExtGlob("ts") >>)} }

\* two scanners called with the same lists on the repository with
\* unreadable files; the first runs alone first
InitPair ==
    /\ fs = RepoB
    /\ given \in GivenMenu
    /\ \E a \in PairScanners, b \in PairScanners :
          /\ entry = a
          /\ scanner = a
          /\ args = PairArgs(a, given.include_globs)
          /\ parked = StartOf(b, given.include_globs)
          /\ solo = [phase |-> "alone", current |-> "first",
                     first |-> StartOf(a, given.include_globs), ret |-> Running]
    /\ payload = NoPayload
    /\ pc = "start"
    /\ InitLocals
    /\ NoGenerator
    /\ call = NoCall
    /\ runs = <<>>

\* the run of the first invocation alone is over: its result is kept, and
\* the caller starts the two invocations, with the lists as they were
StartBoth ==
    /\ solo.phase = "alone"
    /\ pc = "done"
    /\ solo' = [solo EXCEPT !.phase = "both", !.ret = ret]
    /\ Resume(solo.first)
    /\ given' = [shared |-> TRUE, include_globs |-> solo.first.args.include_globs,
                 exclude_globs |-> solo.first.args.exclude_globs]
    /\ UNCHANGED << fs, parked, genvars, call, runs >>

\* the other thread is scheduled: the running invocation is parked and the
\* parked one, if it has not returned, goes on
Switch ==
    /\ solo.phase = "both"
    /\ parked.pc # "done"
    /\ Resume(parked)
    /\ parked' = Snapshot
    /\ solo' = [solo EXCEPT !.current = IF @ = "first" THEN "second" ELSE "first"]
    /\ UNCHANGED << fs, given, genvars, call, runs >>

vars == << scanvars, genvars, call, runs, pairvars >>

Init ==
    InitWalk \/ InitExtract \/ InitLinks \/ InitPair \/ InitRobust \/ InitGen

Next ==
    \/ RobustParse \/ Begin \/ WalkDir \/ NextFile \/ OpenFile \/ ReadFile
    \/ MatchFile \/ Return \/ StartBoth \/ Switch
    \/ GenLoad \/ GenModule \/ GenWrite \/ GenReturn \/ GenAgain \/ GenOther

Spec == Init /\ [][Next]_vars

\* the steps of a scanner's _run
ScanStep ==
    \/ RobustParse \/ Begin \/ WalkDir \/ NextFile \/ OpenFile \/ ReadFile
    \/ MatchFile \/ Return

InitScan == InitWalk \/ InitLinks \/ InitRobust

\* one scanner invocation under a fair scheduler: a running invocation
\* goes on to its next statement, since no statement of _run waits for
\* anything.  Every step of _run changes pc or filenames.
FairSpec == InitScan /\ [][ScanStep]_vars /\ WF_<< pc, filenames >>(ScanStep)

NextCall == DetectPersonaCall \/ SanitizeCall \/ FnmatchCall

\* the helper methods called on their own
CallSpec == InitCall /\ [][NextCall]_vars

\* ================================================================ claims
\* the paths of the records a scanner has produced so far
OutputPaths ==
    IF scanner = LISTER THEN Range(results)
    ELSE {results[i].path : i \in 1..Len(results)}
         \cup {frameworks[i].path : i \in 1..Len(frameworks)}
         \cup {assets[i].path : i \in 1..Len(assets)}

\* the directories above a relative path
Ancestors(p) == {SubSeq(p, 1, i - 1) : i \in {j \in 1..Len(p) : p[j] = "/"}}

\* the exclude list of the call
CallExclude == EffectiveExclude(scanner, args.exclude_globs)

\* an exclude glob matches the directory path followed by "/"
ExcludedDir(d) == \E i \in 1..Len(CallExclude) : fnmatch(d \o <<"/">>, CallExclude[i])

\* an exclude glob matches the file path
ExcludedFile(p) == \E i \in 1..Len(CallExclude) : fnmatch(p, CallExclude[i])

\* the path lies beneath a directory an exclude glob matches
BeneathExcluded(p) == \E d \in Ancestors(p) : ExcludedDir(d)

\* C1: no file whose path matches an exclude glob, and no file beneath a
\* directory whose path followed by "/" matches an exclude glob, is in the
\* output of a scanner, whatever the include globs; no such directory, and
\* no directory beneath one, is walked.
C1_Pruning ==
    /\ \A p \in OutputPaths : ~ExcludedFile(p) /\ ~BeneathExcluded(p)
    /\ \A d \in entered : d # <<>> => ~ExcludedDir(d) /\ ~BeneathExcluded(d)
    /\ \A i \in 1..Len(opened) :
          ~ExcludedFile(opened[i]) /\ ~BeneathExcluded(opened[i])

\* C1 witness: a scan has returned records although the repository holds a
\* file beneath an excluded directory that matches an include glob, and a
\* file that matches both an exclude and an include glob
C1_Witness ==
    /\ pc = "done"
    /\ ret.status = "returned"
    /\ OutputPaths # {}
    /\ include_globs # <<>>
    /\ \E p \in DOMAIN fs.data :
          BeneathExcluded(p) /\ MatchesAny(p, include_globs)
    /\ \E p \in DOMAIN fs.data :
          ExcludedFile(p) /\ ~BeneathExcluded(p) /\ MatchesAny(p, include_globs)

\* the generic scanner runs with an integer max_files
IntCap == scanner = GENERIC /\ args.max_files.t = "int"

\* C2 as stated: the number of distinct files opened during a run of the
\* generic scanner is at most max_files, for every integer max_files.
C2_Original ==
    IntCap /\ pc = "done" /\ ret.status = "returned"
        => Cardinality(Range(opened)) <= args.max_files.v

\* C2 amended: at most max(max_files, 0) files are opened, none twice, and
\* none once the count of candidate files has passed max_files.
C2_CapInvariant ==
    IntCap =>
        /\ Len(opened) <= Max(args.max_files.v, 0)
        /\ Cardinality(Range(opened)) = Len(opened)
        /\ pc \in {"open", "read", "match"} => file_count <= args.max_files.v

\* C2 witness: the scan was cut by the cap after opening max_files >= 1
\* files
C2_Witness ==
    /\ IntCap
    /\ pc = "done"
    /\ args.max_files.v >= 1
    /\ file_count > args.max_files.v
    /\ Len(opened) = args.max_files.v

\* the number of records of the result whose path is p
RecordsOf(p) == Cardinality({i \in 1..Len(results) : results[i].path = p})

\* C3: with max_matches_per_file = m >= 0, every file contributes at most m
\* entries to the matches of the generic scanner.
C3_PerFileCap ==
    scanner = GENERIC /\ args.max_matches_per_file.t = "int"
                      /\ args.max_matches_per_file.v >= 0
        => \A p \in DOMAIN fs.data : RecordsOf(p) <= args.max_matches_per_file.v

\* the number of lines of a file of the repository
NumLines(p) ==
    LET text == fs.data[p].text
    IN CountNL(text) + (IF text # <<>> /\ text[Len(text)] # NL THEN 1 ELSE 0)

\* C4: every match of the generic scanner has line_start >= 1, line_end at
\* most the number of lines of the file, line_end >= line_start, and the
\* matched line within the range, for every context_lines.
C4_ContextBounds ==
    scanner = GENERIC /\ args.context_lines.t = "int"
        => \A i \in 1..Len(results) :
              /\ results[i].line_start >= 1
              /\ results[i].line_end <= NumLines(results[i].path)
              /\ results[i].line_end >= results[i].line_start
              /\ prov[i].pos >= results[i].line_start
              /\ prov[i].pos <= results[i].line_end

\* the line range of a record: <<lineStart, lineEnd>>
LineRange(r) ==
    IF scanner = GENERIC THEN <<r.line_start, r.line_end>> ELSE r.line_numbers

\* the line ranges of all the records produced so far
AllLineRanges ==
    IF scanner = LISTER THEN {}
    ELSE {LineRange(results[i]) : i \in 1..Len(results)}
         \cup {frameworks[i].line_numbers : i \in 1..Len(frameworks)}
         \cup {assets[i].line_numbers : i \in 1..Len(assets)}

\* C5: every evidence record of every scanner has lineStart >= 1 and
\* lineEnd >= lineStart (stated for calls whose context_lines is not
\* negative).
C5_LineRange ==
    args.context_lines.t = "int" /\ args.context_lines.v >= 0
        => \A ln \in AllLineRanges : ln[1] >= 1 /\ ln[2] >= ln[1]

\* the files of a file system in the order an unpruned walk meets them
RECURSIVE WalkList(_, _)
WalkList(f, st) ==
    IF st = <<>> THEN <<>>
    ELSE LET d == Head(st)
             names == f.dirs[d].filenames
             subs == SelectSeq([i \in 1..Len(f.dirs[d].dirnames) |->
                                   JoinRel(d, f.dirs[d].dirnames[i])],
                               LAMBDA path : path \notin DOMAIN f.links)
         IN [i \in 1..Len(names) |-> JoinRel(d, names[i])]
            \o WalkList(f, subs \o Tail(st))

\* the place of a file in the walk
WalkIndex(p) ==
    LET w == WalkList(fs, << <<>> >>) IN CHOOSE i \in 1..Len(w) : w[i] = p

\* a sequence of paths follows the walk
InWalkOrder(paths) ==
    \A i, j \in 1..Len(paths) : i < j => WalkIndex(paths[i]) <= WalkIndex(paths[j])

PerLine == {GENERIC, ENDPOINT}

\* prov tells where each record of results comes from
ProvMatchesResults ==
    /\ Len(prov) = Len(results)
    /\ scanner # LISTER => \A i \in 1..Len(results) : results[i].path = prov[i].rel

C7_NeverFails == entry = ROBUST /\ pc = "done" => ret.status = "returned"

\* the JSON objects of the payload that hold both required keys, by place
PayloadConfigs ==
    {i \in 1..Len(payload.items) :
        /\ payload.kind \in {"dict", "list"}
        /\ payload.items[i].t = "dict"
        /\ "repo_root" \in payload.items[i].has
        /\ "patterns" \in payload.items[i].has}

\* the first of them
FirstPayloadConfig ==
    payload.items[CHOOSE i \in PayloadConfigs : \A j \in PayloadConfigs : i <= j]

\* C8: the strict parse comes first and its config is used whenever the
\* payload is a JSON object, or an array holding an object, with both keys
\* (the first such element); otherwise the heuristic config is used: the
\* first path-like token, else ".", with the default patterns; and for a
\* payload that is no JSON the run returns a result instead of raising.
C8_TwoStage ==
    entry = ROBUST /\ pc # "parse"
        => /\ IF PayloadConfigs # {}
              THEN /\ args.repo_root = FirstPayloadConfig.val.repo_root
                   /\ args.patterns = FirstPayloadConfig.val.patterns
              ELSE /\ args.repo_root
                        = StrV(IF payload.token = "none" THEN "." ELSE payload.token)
                   /\ args.patterns = ListV(HeuristicPatterns)
           /\ payload.kind = "text" /\ pc = "done" => ret.status = "returned"

\* C9: when the patterns of the strict generic scanner hold an invalid
\* regular expression together with valid ones, the scan still runs and
\* returns.
C9_InvalidDropped ==
    /\ entry = GENERIC
    /\ args.patterns.t = "list"
    /\ \E i \in 1..Len(args.patterns.v) : args.patterns.v[i] = "("
    /\ \E i \in 1..Len(args.patterns.v) : args.patterns.v[i] \in ContentAtoms
    /\ pc = "done"
    => ret.status = "returned"

\* C10: when the analysis file given to the generator does not exist or
\* cannot be parsed as JSON, no step of the call creates or changes a file or
\* a directory under output_dir, and the call ends by returning
\* {"written": [], "error": message}
C10_MissingAnalysis ==
    [][entry = GENERATOR /\ analysis.kind \in {"missing", "unreadable", "invalid"}
        => /\ disk' = disk
           /\ made_dirs' = made_dirs
           /\ pc' \in {"gen_load", "done"}
           /\ pc' = "done"
                => /\ ret'.status = "returned"
                   /\ ret'.value.has = {"written", "error"}
                   /\ ret'.value.written = <<>>
                   /\ ret'.value.error # <<>>]_vars

\* a call on an analysis file that is no JSON has returned the error result
\* and the story file of an earlier run is still as it was
C10_Witness ==
    /\ entry = GENERATOR
    /\ analysis.kind = "invalid"
    /\ pc = "done"
    /\ ret.status = "returned"
    /\ ret.value.has = {"written", "error"}
    /\ disk = {StaleFile}

\* C11: the generator never lets an exception out: whatever the analysis
\* file holds and however creating a directory or writing a file ends, its
\* _run ends by returning {"written": [...]} or {"written": [], "error": ...}
C11_NeverRaises ==
    entry = GENERATOR /\ pc = "done"
        => /\ ret.status = "returned"
           /\ \/ ret.value.has = {"written"}
              \/ ret.value.has = {"written", "error"} /\ ret.value.written = <<>>

\* the keyword groups in the order the claim gives them
C12_Groups ==
    << [persona |-> "Administrador", keywords |-> AdminKeywords],
       [persona |-> "Jogador", keywords |-> PlayerKeywords],
       [persona |-> "Sistema", keywords |-> SystemKeywords],
       [persona |-> "Usuário", keywords |-> UserKeywords] >>

\* C12: _detect_persona returns one of the four personas: the persona of the
\* first keyword group, in the order Administrator, Player, System, User,
\* that has a keyword contained in the lower-cased text, Usuário when no
\* group has one; a text containing "administrador" in any letter case is
\* classified Administrador whatever else it contains
C12_Persona ==
    call.fn = "_detect_persona" /\ call.done
        => LET text == LowerText(call.arg)
               hit == {i \in 1..4 : AnyIn(C12_Groups[i].keywords, text)}
           IN /\ call.out \in Personas
              /\ hit # {}
                   => call.out = C12_Groups[CHOOSE i \in hit : \A j \in hit : i <= j].persona
              /\ hit = {} => call.out = "Usuário"
              /\ Occurs(<<"admin", "istrador">>, text) => call.out = "Administrador"

\* a text that holds "player" before "ADMINISTRADOR" was classified
\* Administrador
C12_Witness ==
    /\ call.fn = "_detect_persona"
    /\ call.done
    /\ call.arg = <<"player", "ADMIN", "ISTRADOR">>
    /\ call.out = "Administrador"

\* the (module, persona) groups of the analysis document that hold a rule
C13_Groups ==
    LET mods == GetKey(analysis, "modules", <<>>)
    IN UNION { LET gs == GroupRules(GetKey(mods[i], "business_rules", <<>>), <<>>)
               IN {[module |-> i, persona |-> gs[k].persona, rules |-> gs[k].rules] :
                     k \in 1..Len(gs)} : i \in 1..Len(mods) }

\* the feature document of a group
C13_Document(g) ==
    LET m == GetKey(analysis, "modules", <<>>)[g.module]
    IN Join(FeatureLines(ModuleName(m), GetKey(m, "functional_domain", <<>>),
                         g.persona, g.rules))

\* C13: once the generator has returned, every (module, persona) group that
\* holds a rule has its own feature document on disk: no two groups were
\* written to one path, and `written` names no path twice
C13_OwnDocument ==
    entry = GENERATOR /\ pc = "done" /\ ret.status = "returned" /\ analysis.kind = "doc"
        => /\ \A i, j \in 1..Len(written) : i # j => written[i] # written[j]
           /\ Len(written) = Cardinality(C13_Groups)
           /\ \A g \in C13_Groups :
                 \E f \in disk :
                    /\ f.content = C13_Document(g)
                    /\ \A h \in C13_Groups :
                          h # g => f.content # C13_Document(h)

\* C14: a run of the generator on the analysis and the parameters of the
\* run before it ends as that run did and leaves the disk as that run left
\* it: the same `written`, the same files with the same content
C14_Idempotent ==
    entry = GENERATOR /\ pc = "done" /\ runs # <<>>
        => LET before == runs[Len(runs)]
           IN /\ ret = before.ret
              /\ written = before.written
              /\ disk = before.disk
              /\ made_dirs = before.made_dirs

\* a second run has written two documents over the ones of the first
C14_Witness ==
    /\ entry = GENERATOR
    /\ pc = "done"
    /\ runs # <<>>
    /\ ret.status = "returned"
    /\ Len(written) >= 2
    /\ Cardinality(disk) >= 2
    /\ disk = runs[1].disk

\* the document the claim expects for the module Auth
C15_Content ==
    << "Feature: ", "Auth", " (", "Security", ")", NL,
       NL,
       "# Persona: ", "Usuário", NL,
       NL,
       "Scenario: ", "Password must be 8+ characters", NL,
       "  Given uma situação relevante para a regra", NL,
       "  When a condição descrita na regra ocorre", NL,
       "  Then ", "Password must be 8+ characters", NL,
       "  # evidence: ", "/repo/auth.ts", " ", "L10-L12", NL >>

\* C15: for the analysis with the one module "Auth" of domain "Security"
\* and the one rule "Password must be 8+ characters" citing /repo/auth.ts
\* L10-L12, a run with strict_mode and group_by_persona writes exactly one
\* file, out/Usuário/Auth.md, holding the header, one scenario with its
\* Given, When and Then line, and the evidence comment
C15_AuthExample ==
    /\ entry = GENERATOR
    /\ analysis = Doc(<< Module(<<"Auth">>, <<"Security">>,
                                << Rule(<<"Password must be 8+ characters">>,
                                        << FileRef(<<"/repo/auth.ts">>, <<"L10-L12">>) >>) >>) >>)
    /\ gen.group_by_persona /\ gen.strict_mode
    /\ pc = "done" /\ ret.status = "returned"
    => /\ written = << <<"out", "/", "Usuário", "/", "Auth", ".md">> >>
       /\ ret.value.written = written
       /\ disk = {[path |-> <<"out", "/", "Usuário", "/", "Auth", ".md">>,
                   content |-> C15_Content]}

\* the run on the Auth analysis has returned
C15_Witness ==
    /\ entry = GENERATOR
    /\ analysis = Doc(<<AuthModule>>)
    /\ gen.group_by_persona /\ gen.strict_mode
    /\ pc = "done" /\ ret.status = "returned"
    /\ runs = <<>>
    /\ written # <<>>

\* the lines of a file: its content split at the newlines
SplitLines(text, line) ==
    LET nl == {i \in 1..Len(text) : text[i] = NL}
        cut(k) == IF k = 0 THEN 0
                  ELSE IF k = Cardinality(nl) + 1 THEN Len(text) + 1
                  ELSE CHOOSE p \in nl : Cardinality({q \in nl : q < p}) = k - 1
    IN [k \in 1..Cardinality(nl) + 1 |->
           (IF k = 1 THEN line ELSE <<>>)
           \o SubSeq(text, cut(k - 1) + 1, cut(k) - 1)]

\* the modules and the rules of the analysis document
DocModules == Range(GetKey(analysis, "modules", <<>>))
DocRules == UNION {Range(GetKey(m, "business_rules", <<>>)) : m \in DocModules}
DocFileRefs == UNION {Range(GetKey(r, "files", <<>>)) : r \in DocRules}

\* the documents the runs so far have written
WrittenFiles == {f \in disk : \E i \in 1..Len(written) : written[i] = f.path}

C16_Given == <<"  Given uma situação relevante para a regra">>
C16_When == <<"  When a condição descrita na regra ocorre">>

\* line i of a document is one of the lines the claim allows
C16_LineAllowed(lines, i) ==
    LET line == lines[i]
        first(k) == IF k \in 1..Len(lines) /\ lines[k] # <<>> THEN lines[k][1] ELSE ""
    IN \/ line = <<>>
       \/ \E m \in DocModules :
             line = <<"Feature: ">> \o ModuleName(m) \o <<" (">>
                       \o GetKey(m, "functional_domain", <<>>) \o <<")">>
       \/ \E p \in {"Administrador", "Jogador", "Sistema", "Usuário"} :
             line = <<"# Persona: ", p>>
       \/ /\ first(i) = "Scenario: "
          /\ \E r \in DocRules : Tail(line) = GetKey(r, "rule", <<"Regra">>)
          /\ i + 3 <= Len(lines)
          /\ lines[i + 1] = C16_Given
          /\ lines[i + 2] = C16_When
          /\ lines[i + 3] = <<"  Then ">> \o Tail(line)
       \/ line = C16_Given /\ first(i - 1) = "Scenario: "
       \/ line = C16_When /\ first(i - 2) = "Scenario: "
       \/ first(i) = "  Then " /\ first(i - 3) = "Scenario: "
       \/ \E e \in DocFileRefs :
             line = <<"  # evidence: ">> \o e.path \o <<" ">> \o e.line_numbers

C17_Comment(e) == <<"  # evidence: ">> \o e.path \o <<" ">> \o e.line_numbers

\* the lines of a document that open a scenario
C17_Scenarios(lines) ==
    {i \in 1..Len(lines) : lines[i] # <<>> /\ lines[i][1] = "Scenario: "}

\* C17: in every written document the Then line of a rule is followed by
\* one evidence comment per entry of the rule's `files`, in the order of the
\* list, each with the entry's path and line_numbers, and then by the empty
\* line that ends the scenario; a rule without files has no comment
C17_Evidence ==
    entry = GENERATOR
        => \A f \in WrittenFiles :
              LET lines == SplitLines(f.content, <<>>)
              IN \A i \in C17_Scenarios(lines) :
                    \E r \in DocRules :
                       LET files == GetKey(r, "files", <<>>)
                           after == i + 3
                       IN /\ Tail(lines[i]) = GetKey(r, "rule", <<"Regra">>)
                          /\ after + Len(files) + 1 <= Len(lines)
                          /\ \A k \in 1..Len(files) :
                                lines[after + k] = C17_Comment(files[k])
                          /\ lines[after + Len(files) + 1] = <<>>

\* a document holds a scenario with two evidence comments and one with none
C17_Witness ==
    /\ entry = GENERATOR
    /\ pc = "done"
    /\ ret.status = "returned"
    /\ \E f \in WrittenFiles :
          LET lines == SplitLines(f.content, <<>>)
          IN \E i \in C17_Scenarios(lines) :
                /\ i + 5 <= Len(lines)
                /\ lines[i + 4] = C17_Comment(FileRef(<<"/repo/ban.ts">>, <<"L1-L3">>))
                /\ lines[i + 5] = C17_Comment(FileRef(<<"/repo/acl.ts">>, <<"L7-L9">>))
    /\ \E f \in WrittenFiles :
          LET lines == SplitLines(f.content, <<>>)
          IN \E i \in C17_Scenarios(lines) : i + 4 <= Len(lines) /\ lines[i + 4] = <<>>

\* C18: every document is written to out/<persona>/<sanitized module name>.md
\* when group_by_persona is true and to out/<sanitized module name>.md when
\* it is false; the directories of the path exist afterwards, the file holds
\* the new document and nothing of a file that was there, and no other file
\* changes
C18_WritePath ==
    [][entry = GENERATOR /\ Len(written') = Len(written) + 1
        => LET persona == Head(groups).persona
               dir == IF gen.group_by_persona = TRUE
                      THEN <<"out", "/", persona>> ELSE <<"out">>
               path == dir \o <<"/">> \o sanitize_filename(ModuleName(module))
                           \o <<".md">>
           IN /\ written'[Len(written')] = path
              /\ {<<"out">>, dir} \subseteq made_dirs'
              /\ {f.content : f \in {g \in disk' : g.path = path}}
                    = {Join(FeatureLines(ModuleName(module),
                                         GetKey(module, "functional_domain", <<>>),
                                         persona, Head(groups).rules))}
              /\ {f \in disk' : f.path # path} = {f \in disk : f.path # path}]_vars

\* the story file of an earlier run was replaced by a document written under
\* the persona's directory
C18_Witness ==
    /\ entry = GENERATOR
    /\ gen.group_by_persona
    /\ runs = <<>>
    /\ <<"out", "/", "Usuário">> \in made_dirs
    /\ \E f \in disk : f.path = StaleFile.path /\ f.content # StaleFile.content

\* the characters of a name the claim says are kept, in their order
C19_Kept(name) == SelectSeq(name, LAMBDA c : c \in {"A", "B", " ", "-", "_"})

\* every space turned into an underscore
C19_Underscored(s) == [i \in 1..Len(s) |-> IF s[i] = " " THEN "_" ELSE s[i]]

\* what is kept without the spaces at its start and at its end
C19_Trimmed(name) ==
    LET kept == C19_Kept(name)
        solid == {i \in 1..Len(kept) : kept[i] # " "}
    IN IF solid = {} THEN <<>>
       ELSE SubSeq(kept, CHOOSE i \in solid : \A j \in solid : i <= j,
                         CHOOSE i \in solid : \A j \in solid : j <= i)

\* C19 as stated: the result is what is kept with every kept space turned
\* into an underscore, "module" when nothing is kept; it is never empty and
\* holds no space
C19_Original ==
    call.fn = "_sanitize_filename" /\ call.done
        => /\ call.out = IF C19_Kept(call.arg) = <<>> THEN <<"module">>
                         ELSE C19_Underscored(C19_Kept(call.arg))
           /\ call.out # <<>>
           /\ \A i \in 1..Len(call.out) : call.out[i] # " "

\* C19 amended: the spaces at the start and at the end of what is kept are
\* dropped before the remaining spaces are turned into underscores, and
\* "module" is returned when nothing is left then; the result is never
\* empty and holds no space
C19_Sanitize ==
    call.fn = "_sanitize_filename" /\ call.done
        => /\ call.out = IF C19_Trimmed(call.arg) = <<>> THEN <<"module">>
                         ELSE C19_Underscored(C19_Trimmed(call.arg))
           /\ call.out # <<>>
           /\ \A i \in 1..Len(call.out) : call.out[i] # " "

\* a name with a space on either side and one within was sanitized
C19_Witness ==
    /\ call.fn = "_sanitize_filename"
    /\ call.done
    /\ call.arg \in {<<" ", "A", " ">>, <<"A", " ", "B">>}
    /\ call.out \in {<<"A">>, <<"A", "_", "B">>}

\* standard glob matching: "*" stands for any run of characters within one
\* path segment, and "**" for any run of characters, "/" included; "**/"
\* also stands for no segment at all
RECURSIVE C20_Glob(_, _)
C20_Glob(name, pat) ==
    IF pat = <<>> THEN name = <<>>
    ELSE IF Len(pat) >= 3 /\ SubSeq(pat, 1, 3) = <<"*", "*", "/">>
    THEN \/ C20_Glob(name, SubSeq(pat, 4, Len(pat)))
         \/ \E i \in 1..Len(name) :
               name[i] = "/" /\ C20_Glob(SubSeq(name, i + 1, Len(name)), pat)
    ELSE IF Len(pat) >= 2 /\ SubSeq(pat, 1, 2) = <<"*", "*">>
    THEN \E i \in 0..Len(name) :
            C20_Glob(SubSeq(name, i + 1, Len(name)), SubSeq(pat, 3, Len(pat)))
    ELSE IF Head(pat) = "*"
    THEN \/ C20_Glob(name, Tail(pat))
         \/ name # <<>> /\ Head(name) # "/" /\ C20_Glob(Tail(name), pat)
    ELSE name # <<>> /\ Head(name) = Head(pat) /\ C20_Glob(Tail(name), Tail(pat))

\* C20: the matcher of the scanners and the lister follows standard glob
\* semantics: "*" never matches across "/", "**" matches across segments
\* and matches no segment too, so "**/*.py" matches "setup.py" and
\* "**/node_modules/**" matches "node_modules/"
C20_StandardGlob ==
    call.fn = "fnmatch" /\ call.done => call.out = C20_Glob(call.arg, call.pat)

\* the sum of the values of a function whose values are numbers
RECURSIVE SumOver(_, _)
SumOver(f, keys) ==
    IF keys = {} THEN 0
    ELSE LET k == CHOOSE x \in keys : TRUE
         IN f[k] + SumOver(f, keys \ {k})

\* the files of the tree that are not excluded, in the order of the walk
NotExcludedFiles ==
    SelectSeq(WalkList(fs, << <<>> >>),
              LAMBDA p : ~ExcludedFile(p) /\ ~BeneathExcluded(p))

\* the lister was called without include globs and has returned
ListedEverything ==
    /\ scanner = LISTER
    /\ args.include_globs.t = "none"
    /\ args.max_files.v >= 0
    /\ pc = "done"
    /\ ret.status = "returned"

\* C21: the lister called without include globs lists every file of the
\* tree that is not excluded, at any depth and directly under the root too,
\* up to max_files; its count is the length of the files list, is at most
\* max_files and is the sum of the per-extension counts.
C21_IncludeEverything ==
    ListedEverything =>
        /\ ret.value.files
             = PySlice(NotExcludedFiles, 0,
                       Min(Len(NotExcludedFiles), args.max_files.v))
        /\ ret.value.count = Len(ret.value.files)
        /\ ret.value.count <= args.max_files.v
        /\ ret.value.count
             = SumOver(ret.value.extensions, DOMAIN ret.value.extensions)

\* the files of the repository that cannot be opened or read
UnreadableFiles == {p \in DOMAIN fs.data : ~fs.data[p].ok}

\* the files the walk of the call reaches and the glob tests let through
CandidateFiles ==
    {p \in DOMAIN fs.data :
        IsCandidate(p, include_globs, exclude_globs) /\ ~BeneathExcluded(p)}

\* the hits of the running scanner in the text of file p
C22_Hits(p) ==
    LET text == fs.data[p].text
    IN IF scanner = GENERIC
       THEN GenericHits(ReadLines(text, <<>>), compiled,
                        args.max_matches_per_file.v)
       ELSE IF scanner = ENDPOINT THEN EndpointHits(ReadLines(text, <<>>))
       ELSE IF scanner = UI THEN FirstMatchLoop(text, UiKeys, 1)
       ELSE IF scanner = API THEN ApiHits(p, text)
       ELSE FinditerLoop(text, PerContentTable(scanner), 1)

\* the records of the result that were made from the content of file p, as
\* hits, in the order of the result
C22_ContentRecords(p) ==
    LET mine == SelectSeq(prov, LAMBDA e : e.rel = p /\ e.pat # 0)
    IN [i \in 1..Len(mine) |-> Hit(mine[i].pat, mine[i].pos)]

\* C22 as stated: a file that cannot be read contributes no record at all
\* to the output of a scanner.
C22_Original == \A p \in UnreadableFiles : p \notin OutputPaths

\* C22 amended: a candidate file that cannot be opened or read contributes
\* no record made from its content (the records the UI router and the
\* visual identity scanner make from the path alone are kept), no error is
\* raised on it, and the scan goes on: every candidate file is opened
\* unless the file cap cut the scan, and the evidence of every readable
\* file opened is in the result.
C22_UnreadableSkipped ==
    /\ \A i \in 1..Len(prov) : prov[i].pat # 0 => fs.data[prov[i].rel].ok
    /\ ret.status = "raised" /\ opened # <<>> => fs.data[opened[Len(opened)]].ok
    /\ pc = "done" /\ ret.status = "returned" /\ scanner # LISTER
         => /\ entered # {} /\ ~CapReached(file_count)
                => CandidateFiles \subseteq Range(opened)
            /\ \A p \in Range(opened) :
                  fs.data[p].ok => C22_ContentRecords(p) = C22_Hits(p)

\* C22 witness: a scan has returned after it opened a file that cannot be
\* read, which is in the output through a record made from its path, and
\* then a readable file whose evidence it returned
C22_Witness ==
    /\ pc = "done"
    /\ ret.status = "returned"
    /\ \E i, j \in 1..Len(opened) :
          /\ i < j
          /\ ~fs.data[opened[i]].ok
          /\ opened[i] \in OutputPaths
          /\ fs.data[opened[j]].ok
          /\ C22_ContentRecords(opened[j]) # <<>>

\* the candidate files of the call in the order of the walk
CandidatesInOrder ==
    SelectSeq(WalkList(fs, << <<>> >>), LAMBDA p : p \in CandidateFiles)

\* the evidence the generic scanner takes from file p: one record per hit
C23_Evidence(p) ==
    IF ~fs.data[p].ok THEN <<>>
    ELSE LET lines == ReadLines(fs.data[p].text, <<>>)
             hits == GenericHits(lines, compiled, args.max_matches_per_file.v)
         IN [i \in 1..Len(hits) |->
                GenericRecord(p, lines, hits[i].pos, args.context_lines.v)]

\* the matches of the same scan with max_files = n: the evidence of the
\* first n candidate files
C23_Matches(n) ==
    Concat([i \in 1..Min(Max(n, 0), Len(CandidatesInOrder)) |->
               C23_Evidence(CandidatesInOrder[i])])

\* s is a prefix of t
IsPrefix(s, t) == Len(s) <= Len(t) /\ SubSeq(t, 1, Len(s)) = s

\* the generic scanner has walked an existing root with well-typed caps
C23_Walked ==
    /\ IntCap
    /\ args.max_matches_per_file.t = "int"
    /\ args.context_lines.t = "int"
    /\ entered # {}
    /\ pc = "done"

\* C23: reaching max_files in the generic scanner truncates and does not
\* fail: the call returns, its matches are the evidence of the first
\* max_files candidate files in walk order, and they are a prefix of the
\* matches of the same scan with any larger max_files.
C23_Truncation ==
    C23_Walked =>
        /\ CapReached(file_count) => ret.status = "returned"
        /\ ret.status = "returned" =>
              /\ ret.value = C23_Matches(args.max_files.v)
              /\ \A n \in args.max_files.v..(Len(CandidatesInOrder) + 1) :
                    IsPrefix(ret.value, C23_Matches(n))

\* C23 witness: the cap cut a scan that had evidence to return, and the
\* scan without the cap returns more
C23_Witness ==
    /\ C23_Walked
    /\ CapReached(file_count)
    /\ ret.status = "returned"
    /\ ret.value # <<>>
    /\ Len(ret.value) < Len(C23_Matches(Len(CandidatesInOrder)))

\* the scanners that locate a match in the whole content of the file
PerContent == {DB, VALIDATOR, VISUAL, UI, API}

\* the number of newlines of a text
C24_Newlines(s) == Cardinality({i \in 1..Len(s) : s[i] = NL})

\* the fixed window of each per-content scanner
C24_W ==
    IF scanner = VISUAL THEN 120
    ELSE IF scanner \in {DB, VALIDATOR} THEN 160
    ELSE 200

\* content[lo:hi] for 0 <= lo <= hi <= length
C24_Slice(text, lo, hi) == [i \in 1..(hi - lo) |-> text[lo + i]]

\* the records made from a match in the content: every record of a
\* per-content scanner but the ones made from the path alone and the
\* openapi_paths record
C24_MatchRecords ==
    {i \in 1..Len(results) :
        /\ scanner \in PerContent
        /\ prov[i].pat # 0
        /\ scanner = API => results[i].category = "graphql_schema_or_operation"}

C25_OneFileOpen ==
    /\ Cardinality(handles) <= 1
    /\ handles # {} => pc = "read" /\ handles = {rel}
    /\ pc \in {"files", "open", "match", "walk", "return", "done"} => handles = {}

\* C25 witness: the match loop of a file runs, with no file open, after an
\* earlier file of the scan could not be read
C25_Witness ==
    /\ pc = "match"
    /\ handles = {}
    /\ Len(opened) >= 2
    /\ opened[Len(opened)] = rel
    /\ \E i \in 1..(Len(opened) - 1) : ~fs.data[opened[i]].ok

\* the result of the first invocation of a pair, once it has returned or
\* raised while the two ran together
C26_FirstResult ==
    IF solo.current = "first" THEN ret ELSE parked.ret

\* the first invocation of a pair is over
C26_FirstDone ==
    /\ solo.phase = "both"
    /\ IF solo.current = "first" THEN pc = "done" ELSE parked.pc = "done"

\* C26: scanner invocations share no mutable state: no step changes the
\* lists the caller supplied, and in every interleaving of two invocations
\* over the same repository an invocation returns exactly what it returns
\* when it runs alone.
C26_Independent ==
    /\ given.shared =>
          /\ given.include_globs = args.include_globs
          /\ given.exclude_globs = args.exclude_globs
    /\ C26_FirstDone => C26_FirstResult = solo.ret

\* C26 witness: with empty lists from the caller, the first invocation has
\* returned evidence while the second, another scanner with other
\* defaults, is in the middle of its walk
C26_Witness ==
    /\ C26_FirstDone
    /\ solo.current = "first"
    /\ given.include_globs.v = <<>>
    /\ ret.status = "returned"
    /\ results # <<>>
    /\ parked.scanner # scanner
    /\ parked.pc \in {"files", "open", "read", "match"}
    /\ parked.opened # <<>>

\* the invocation is over: it has returned or raised
C27_Finished == pc = "done"

\* no directory is yielded by the walk twice, whatever path leads to it,
\* and no file is opened or listed twice
C27_Once ==
    /\ \A i \in 1..Len(stack) :
          realpath(stack[i]) \notin {realpath(d) : d \in entered}
    /\ \A i, j \in 1..Len(stack) :
          i < j => realpath(stack[i]) # realpath(stack[j])
    /\ \A i, j \in 1..Len(opened) : i < j => opened[i] # opened[j]
    /\ scanner = LISTER =>
          \A i, j \in 1..Len(results) : i < j => results[i] # results[j]

\* C27: every scanner invocation over a finite tree terminates and comes
\* to its result; each directory is visited at most once and each
\* candidate file processed at most once, also when the tree holds a
\* symbolic link to an ancestor directory.
C27_Terminates ==
    /\ []C27_Once
    /\ (pc \in {"start", "parse"}) ~> C27_Finished
    /\ (pc = "start" /\ entry \in Scanners)
          ~> (C27_Finished /\ ret.status = "returned")

\* C27 witness: a scan of the tree with the symbolic link to the root has
\* returned; it walked the directory that holds the link, which no
\* exclude glob pruned, and went on to the files after it
C27_Witness ==
    /\ pc = "done"
    /\ ret.status = "returned"
    /\ \E l \in DOMAIN fs.links :
          /\ fs.links[l] \in Ancestors(l) \cup {<<>>}
          /\ ~ExcludedDir(l)
          /\ \E d \in entered : l \in {JoinRel(d, fs.dirs[d].dirnames[i]) :
                                         i \in 1..Len(fs.dirs[d].dirnames)}
          /\ l \notin entered
    /\ OutputPaths # {}

C29_Separators == {"/", "\\"}
C29_Dirs ==
    IF gen.group_by_persona
    THEN { <<gen.output_dir, "/", p>> :
              p \in {"Administrador", "Jogador", "Sistema", "Usuário"} }
    ELSE { <<gen.output_dir>> }

\* the path is a directory of C29_Dirs, a separator and a file name that
\* holds no separator and is neither '.' nor '..'
C29_Inside(path) ==
    \E d \in C29_Dirs :
        /\ Len(path) > Len(d) + 1
        /\ SubSeq(path, 1, Len(d) + 1) = d \o <<"/">>
        /\ LET fname == SubSeq(path, Len(d) + 2, Len(path))
           IN /\ \A i \in 1..Len(fname) : fname[i] \notin C29_Separators
              /\ fname \notin { <<".">>, <<".", ".">> }

\* C29: every path the generator writes lies in output_dir itself (without
\* grouping) or in one of the four persona directories under it (with
\* grouping), and its file name holds no path separator and is never '.' or
\* '..', whatever the module is called; so every file on disk lies inside
\* output_dir
C29_InsideOutputDir ==
    entry = GENERATOR =>
        /\ \A i \in 1..Len(written) : C29_Inside(written[i])
        /\ \A f \in disk : f.path[1] = gen.output_dir /\ f.path[2] = "/"
        /\ \A f \in disk : f # StaleFile => C29_Inside(f.path)

\* a module whose name holds '..', '/' and '\' has been written, and so has
\* a module called '.'
C29_Witness ==
    /\ entry = GENERATOR
    /\ pc = "done"
    /\ ret.status = "returned"
    /\ \E m \in 1..Len(analysis.modules) :
          /\ "\\" \in {ModuleName(analysis.modules[m])[i] :
                          i \in 1..Len(ModuleName(analysis.modules[m]))}
          /\ "/" \in {ModuleName(analysis.modules[m])[i] :
                          i \in 1..Len(ModuleName(analysis.modules[m]))}
    /\ \E i \in 1..Len(written) :
          written[i][Len(written[i]) - 1] = "Game"
    /\ \E i \in 1..Len(written) :
          written[i][Len(written[i]) - 1] = "module"

\* ------------------------------------------------------------------- C30
\* C30: the generator's output does not depend on strict_mode: called with
\* the other value of strict_mode on the same analysis, output_dir (as it
\* was before the first call) and group_by_persona, _run ends as the first
\* call did: the same result, the same `written`, the same files with the
\* same content and the same directories
C30_StrictModeIgnored ==
    entry = GENERATOR /\ pc = "done" /\ twin.phase = "second" /\ runs = <<>>
        => /\ ret = twin.ret
           /\ written = twin.written
           /\ disk = twin.disk
           /\ made_dirs = twin.made_dirs

\* both calls have written a document of two scenarios, the second one
\* with strict_mode false
C30_Witness ==
    /\ entry = GENERATOR
    /\ pc = "done"
    /\ twin.phase = "second"
    /\ runs = <<>>
    /\ ~gen.strict_mode
    /\ ret.status = "returned"
    /\ twin.written # <<>>
    /\ written # <<>>
    /\ \E f \in disk :
          Cardinality({i \in 1..Len(f.content) : f.content[i] = GivenLine[1]}) >= 2

====
